---- MODULE Spec2Model ----
(***************************************************************************)
(* NTP clock firmware v3.0: the connectivity state machine of loop(), the  *)
(* button handler handleButtons() and the reconnect backoff, modelled from *)
(* the firmware listing.  One iteration of loop() is three steps, in the   *)
(* order of the code: LoopBegin (sample now, serve provisioning, the       *)
(* preemption check), HandleButtons, StateMachine (the switch and the      *)
(* closing delay).  The radio changes its link state between the steps.    *)
(***************************************************************************)
EXTENDS Integers, Sequences, FiniteSets, TLC

\* ---- firmware globals (names of the listing) ----
VARIABLES currentState, previousState, stateEnteredAt, lastTimeUpdate,
          displayBrightness, use24Hour, improvConnected,
          lastReconnectAttempt, reconnectInterval, reconnectAttempts,
          ipScrollingStarted, ipScrollDuration,
          lastButtonPress, lastModeState, lastUpState, lastDownState,
          modePressStart, modeLongPressHandled,
\* ---- locals of loop() that live across the three steps ----
          now, stateElapsed, pc,
\* ---- devices: millis(), WiFi, Preferences, display ----
          clock, wifiStatus, staBegun, apActive, savedSSID, display, ipLen,
          pins, improvPending, pinChanges, linkChanges, provisions,
\* ---- the beep, Preferences ("ntp_clock"), the web server, restarts ----
          beepEndTime, beepActive, prefBrightness, pref24hour,
          webPending, webRequests, boots,
\* ---- Preferences "timezone", the answer of the geolocation service ----
          prefTimezone, geoOffset,
\* ---- history (not read by the firmware) ----
          calls, lastFrom, bootAt, visited, everConnected, everProvisioned,
          holdSince, holdFires, btnScrollDuration,
          lostEnteredAt, lastWait, beepStart, beepDuration, beepRan,
          resetSince, linkDead, sleeps, prevVisited,
          lastActionAt, actionGap,
\* "left" from the step that leaves STATE_AP_MODE until attemptNtpSync() has
\* been called, "synced" from then on
          sinceExit,
\* the transitions made by the preemption check since the last provisioning
\* request that connected
          preemptions,
\* the starts of the access point since STATE_AP_MODE was last entered,
\* counted up to 2
          portalStarts,
\* the gesture of Up and Down as handleButtons() sampled it: "open" from the
\* first sample with one of them pressed, "combo" once ForceReconnect was
\* accepted, "none" from the sample with both released; the brightness
\* actions applied within it, counted up to 2
          gesture,
          gestureActs,
\* ---- BufferedHWCDC bufferedSerial ----
          buffer,
          head,
          tail,
          count,
\* history: the bytes accepted by feedByte and not yet returned by read, the
\* value read() returned last, the calls under way in loop() and in
\* hwcdcEventCallback, the calls made
          unread,
          lastRead,
          loopCall,
          eventCall,
          ringOps

vars == <<currentState, previousState, stateEnteredAt, lastTimeUpdate,
          displayBrightness, use24Hour, improvConnected,
          lastReconnectAttempt, reconnectInterval, reconnectAttempts,
          ipScrollingStarted, ipScrollDuration,
          lastButtonPress, lastModeState, lastUpState, lastDownState,
          modePressStart, modeLongPressHandled,
          now, stateElapsed, pc,
          clock, wifiStatus, staBegun, apActive, savedSSID, display, ipLen,
          pins, improvPending, pinChanges, linkChanges, provisions,
          beepEndTime, beepActive, prefBrightness, pref24hour,
          webPending, webRequests, boots,
          prefTimezone, geoOffset,
          calls, lastFrom, bootAt, visited, everConnected, everProvisioned,
          holdSince, holdFires, btnScrollDuration,
          lostEnteredAt, lastWait, beepStart, beepDuration, beepRan,
          resetSince, linkDead, sleeps, prevVisited,
          lastActionAt, actionGap,
          sinceExit,
          preemptions,
          portalStarts,
          gesture,
          gestureActs,
          buffer,
          head,
          tail,
          count,
          unread,
          lastRead,
          loopCall,
          eventCall,
          ringOps>>

\* ---- enum ClockState ----
STATE_BOOT            == "BOOT"
STATE_IMPROV_WAIT     == "IMPROV_WAIT"
STATE_WIFI_CONNECTING == "WIFI_CONNECTING"
STATE_NTP_SYNCING     == "NTP_SYNCING"
STATE_RUNNING         == "RUNNING"
STATE_WIFI_LOST       == "WIFI_LOST"
STATE_SHOWING_IP      == "SHOWING_IP"
STATE_AP_MODE         == "AP_MODE"

ClockState ==
  {STATE_BOOT, STATE_IMPROV_WAIT, STATE_WIFI_CONNECTING, STATE_NTP_SYNCING,
   STATE_RUNNING, STATE_WIFI_LOST, STATE_SHOWING_IP, STATE_AP_MODE}

\* ---- program constants ----
MAX_RECONNECT_INTERVAL  == 300000
MAX_RECONNECT_BEFORE_AP == 36
INITIAL_RECONNECT_INTERVAL == 5000
BOOT_MS            == 3000
IMPROV_WAIT_MS     == 10000
CONNECT_TIMEOUT_MS == 20000
NTP_TIMEOUT_MS     == 10000
SCROLL_STEP_MS     == 350
LONG_PRESS_MS      == 2000
COMBO_SPACING_MS   == 500
BUTTON_SPACING_MS  == 200
LOOP_DELAY_MS      == 10
AP_SSID_LEN        == 16
DEFAULT_BRIGHTNESS == 8
\* the delays of setup(), millis() when setup() stamps stateEnteredAt
SETUP_MS           == 100 + 100 + 100 + 200

\* ---- bounds of the model ----
MaxTime        == 23000
MaxTimeProvision == 9000
MaxTimePreempt == 24000
MaxLinkPreempt == 2
MaxTimeDown    == 20000
MaxTimeWrap    == 9000
WrapLead       == 1024
WrapQuantum    == 32
MaxWrapPins    == 2
MaxWrapLink    == 1
MaxSleeps      == 1
MaxTimePortal  == 7500
MaxWebRequests == 1
MaxBoots       == 2
MaxPortalPins  == 2
MaxTimeFallback == 35000
MaxPowerCycles == 1
MaxTimeExit    == 36000
MaxTimeSpacing == 10000
MaxTimeScroll  == 22000
MaxTimeToggle  == 8000
MaxTimeHeld    == 40000
MaxTimeGesture == 8700
MaxGesturePins == 3
\* the slots of BufferedHWCDC::buffer (sizeof(buffer), 256 in the source), the
\* calls made of feedByte and read, and the bytes fed
BufferSize     == 3
MaxRingOps     == 7
MaxRaceOps     == 3
MaxHeldPins    == 2
MaxTogglePins  == 3
MaxTimeTimezone == 16000
MaxScrollProvisions == 2
MaxScrollLink  == 2
SpacingQuantum == 100
MaxSpacingPins == 2
MaxTimeButtons == 4000
MaxTimeBoot    == 34000
MaxTimeAddress == 13000
MaxModeChanges == 2
MaxTimeLong    == 9400000
MaxPinChanges  == 3
MaxComboChanges == 2
MaxLinkChanges == 4
MaxProvisions  == 1
Quantum        == 1000

\* unsigned long arithmetic.  millis() is 32 bits wide; TLC's integers end at
\* 2^31 - 1, so the counter is kept 30 bits wide: the same modular arithmetic,
\* wrapping after 12.4 days in place of 49.7.
Word32 == 2^30
Add32(a, b) == (a + b) % Word32
Sub32(a, b) == (a - b + Word32) % Word32
Min(a, b) == IF a < b THEN a ELSE b

\* uint16_t arithmetic (head, tail, count)
Word16 == 65536
\* BufferedHWCDC at construction, and a thread of control that is in neither
\* feedByte nor read
EmptyBuffer == [i \in 0 .. BufferSize - 1 |-> 0]
NoCall == [op |-> "none", at |-> 0, byte |-> 0, reg |-> 0]
\* no read() has returned yet
NO_READ == -2
Max(a, b) == IF a > b THEN a ELSE b

\* The firmware state as one record, threaded through the sequential code.
M == [currentState |-> currentState, previousState |-> previousState,
      stateEnteredAt |-> stateEnteredAt, lastTimeUpdate |-> lastTimeUpdate,
      displayBrightness |-> displayBrightness, use24Hour |-> use24Hour,
      improvConnected |-> improvConnected,
      lastReconnectAttempt |-> lastReconnectAttempt,
      reconnectInterval |-> reconnectInterval,
      reconnectAttempts |-> reconnectAttempts,
      ipScrollingStarted |-> ipScrollingStarted,
      ipScrollDuration |-> ipScrollDuration,
      lastButtonPress |-> lastButtonPress, lastModeState |-> lastModeState,
      lastUpState |-> lastUpState, lastDownState |-> lastDownState,
      modePressStart |-> modePressStart,
      modeLongPressHandled |-> modeLongPressHandled,
      now |-> now, stateElapsed |-> stateElapsed,
      clock |-> clock, wifiStatus |-> wifiStatus, staBegun |-> staBegun,
      apActive |-> apActive, savedSSID |-> savedSSID, display |-> display,
      ipLen |-> ipLen, pins |-> pins, improvPending |-> improvPending,
      pinChanges |-> pinChanges, linkChanges |-> linkChanges,
      provisions |-> provisions,
      calls |-> calls, lastFrom |-> lastFrom, bootAt |-> bootAt,
      visited |-> visited, everConnected |-> everConnected,
      everProvisioned |-> everProvisioned,
      holdSince |-> holdSince, holdFires |-> holdFires,
      btnScrollDuration |-> btnScrollDuration,
      beepEndTime |-> beepEndTime, beepActive |-> beepActive,
      prefBrightness |-> prefBrightness, pref24hour |-> pref24hour,
      webPending |-> webPending, webRequests |-> webRequests, boots |-> boots,
      lostEnteredAt |-> lostEnteredAt, lastWait |-> lastWait,
      beepStart |-> beepStart, beepDuration |-> beepDuration,
      beepRan |-> beepRan, resetSince |-> resetSince, linkDead |-> linkDead,
      sleeps |-> sleeps, prevVisited |-> prevVisited,
      prefTimezone |-> prefTimezone, geoOffset |-> geoOffset,
      lastActionAt |-> lastActionAt, actionGap |-> actionGap,
      sinceExit |-> sinceExit,
      preemptions |-> preemptions,
      portalStarts |-> portalStarts,
      gesture |-> gesture,
      gestureActs |-> gestureActs,
      buffer |-> buffer,
      head |-> head,
      tail |-> tail,
      count |-> count,
      unread |-> unread,
      lastRead |-> lastRead,
      loopCall |-> loopCall,
      eventCall |-> eventCall,
      ringOps |-> ringOps]

Commit(m) ==
  /\ currentState' = m.currentState
  /\ previousState' = m.previousState
  /\ stateEnteredAt' = m.stateEnteredAt
  /\ lastTimeUpdate' = m.lastTimeUpdate
  /\ displayBrightness' = m.displayBrightness
  /\ use24Hour' = m.use24Hour
  /\ improvConnected' = m.improvConnected
  /\ lastReconnectAttempt' = m.lastReconnectAttempt
  /\ reconnectInterval' = m.reconnectInterval
  /\ reconnectAttempts' = m.reconnectAttempts
  /\ ipScrollingStarted' = m.ipScrollingStarted
  /\ ipScrollDuration' = m.ipScrollDuration
  /\ lastButtonPress' = m.lastButtonPress
  /\ lastModeState' = m.lastModeState
  /\ lastUpState' = m.lastUpState
  /\ lastDownState' = m.lastDownState
  /\ modePressStart' = m.modePressStart
  /\ modeLongPressHandled' = m.modeLongPressHandled
  /\ now' = m.now
  /\ stateElapsed' = m.stateElapsed
  /\ clock' = m.clock
  /\ wifiStatus' = m.wifiStatus
  /\ staBegun' = m.staBegun
  /\ apActive' = m.apActive
  /\ savedSSID' = m.savedSSID
  /\ display' = m.display
  /\ ipLen' = m.ipLen
  /\ calls' = m.calls
  /\ lastFrom' = m.lastFrom
  /\ bootAt' = m.bootAt
  /\ visited' = m.visited
  /\ everConnected' = m.everConnected
  /\ everProvisioned' = m.everProvisioned
  /\ pins' = m.pins
  /\ improvPending' = m.improvPending
  /\ pinChanges' = m.pinChanges
  /\ linkChanges' = m.linkChanges
  /\ provisions' = m.provisions
  /\ holdSince' = m.holdSince
  /\ holdFires' = m.holdFires
  /\ btnScrollDuration' = m.btnScrollDuration
  /\ beepEndTime' = m.beepEndTime
  /\ beepActive' = m.beepActive
  /\ prefBrightness' = m.prefBrightness
  /\ pref24hour' = m.pref24hour
  /\ webPending' = m.webPending
  /\ webRequests' = m.webRequests
  /\ boots' = m.boots
  /\ lostEnteredAt' = m.lostEnteredAt
  /\ lastWait' = m.lastWait
  /\ beepStart' = m.beepStart
  /\ beepDuration' = m.beepDuration
  /\ beepRan' = m.beepRan
  /\ resetSince' = m.resetSince
  /\ linkDead' = m.linkDead
  /\ sleeps' = m.sleeps
  /\ prevVisited' = m.prevVisited
  /\ prefTimezone' = m.prefTimezone
  /\ geoOffset' = m.geoOffset
  /\ lastActionAt' = m.lastActionAt
  /\ actionGap' = m.actionGap
  /\ sinceExit' = m.sinceExit
  /\ preemptions' = m.preemptions
  /\ portalStarts' = m.portalStarts
  /\ gesture' = m.gesture
  /\ gestureActs' = m.gestureActs
  /\ buffer' = m.buffer
  /\ head' = m.head
  /\ tail' = m.tail
  /\ count' = m.count
  /\ unread' = m.unread
  /\ lastRead' = m.lastRead
  /\ loopCall' = m.loopCall
  /\ eventCall' = m.eventCall
  /\ ringOps' = m.ringOps

\* a key of Preferences that was never written
PREF_UNSET == -1
HourFormats == {"unset", "12", "24"}
\* the answer of the geolocation service when it gives none
NO_ANSWER == -1
\* the offset the form of the portal shows when none is stored (setup(), line 490)
DEFAULT_TIMEZONE == -28800
NoRequest == [kind |-> "none", ssid |-> FALSE, hasBrightness |-> FALSE,
              brightness |-> 0, hourFormat |-> "unset",
              timezone |-> DEFAULT_TIMEZONE]

\* delay(ms): millis() advances
delay(m, ms) == [m EXCEPT !.clock = Add32(m.clock, ms)]

\* a call of the iteration, recorded in order
Call(m, what) == [m EXCEPT !.calls = Append(m.calls, what)]
Called(what) == \E i \in DOMAIN calls : calls[i] = what

\* beepBlocking(frequency, duration)
beepBlocking(m, duration) == delay(Call(m, "beep"), duration)

\* void startBeep(int frequency, int duration)
startBeep(m, duration) ==
  [m EXCEPT !.beepEndTime = Add32(m.clock, duration),
            !.beepActive = TRUE,
            !.beepStart = m.clock,
            !.beepDuration = duration]

\* void updateBeep()
updateBeep(m) ==
  IF m.beepActive /\ m.clock >= m.beepEndTime
  THEN [m EXCEPT !.beepActive = FALSE,
                 !.beepRan = Sub32(m.clock, m.beepStart)]
  ELSE m

\* bool detectTimezoneFromIP(), lines 1041-1072: on an answer the offset is
\* stored; the time the request takes is not modelled
detectTimezoneFromIP(m) ==
  LET m1 == Call(m, "detectTimezoneFromIP")
  IN IF m1.geoOffset # NO_ANSWER
     THEN [m1 EXCEPT !.prefTimezone = m1.geoOffset]
     ELSE m1

\* preferences.getLong("timezone", 0) == 0, then detectTimezoneFromIP():
\* lines 406-414 and 616-627
inferTimezone(m) ==
  IF (IF m.prefTimezone = PREF_UNSET THEN 0 ELSE m.prefTimezone) = 0
  THEN detectTimezoneFromIP(m)
  ELSE m

\* an action of the buttons is accepted at t: the time since the one before,
\* up to BUTTON_SPACING_MS (history)
accepted(m, t) ==
  [m EXCEPT !.actionGap = IF m.lastActionAt = -1 THEN BUTTON_SPACING_MS
                          ELSE Min(Sub32(t, m.lastActionAt), BUTTON_SPACING_MS),
            !.lastActionAt = t]

\* changeState() without the early return on newState == currentState
changeStateAlways(m, newState) ==
  LET m1 == [m EXCEPT !.previousState = m.currentState,
                      !.currentState = newState,
                      !.stateEnteredAt = m.clock,
                      !.lastFrom = m.currentState,
                      !.sinceExit = IF m.currentState = STATE_AP_MODE
                                   THEN "left" ELSE m.sinceExit,
                      !.visited = m.visited \cup {newState}]
  IN CASE newState = STATE_SHOWING_IP ->
            [m1 EXCEPT !.ipScrollingStarted = FALSE]
       [] newState = STATE_WIFI_LOST ->
            [m1 EXCEPT !.reconnectAttempts = 0,
                       !.reconnectInterval = INITIAL_RECONNECT_INTERVAL,
                       !.lastReconnectAttempt = 0,
                       !.lostEnteredAt = m.clock]
       [] newState = STATE_AP_MODE ->
            [m1 EXCEPT !.ipScrollingStarted = FALSE,
                       !.portalStarts = 0]
       [] OTHER -> m1

\* changeState() without the entry action of STATE_WIFI_LOST
changeStateNoLostReset(m, newState) ==
  IF newState = m.currentState THEN m
  ELSE LET m1 == [m EXCEPT !.previousState = m.currentState,
                           !.currentState = newState,
                           !.stateEnteredAt = m.clock,
                           !.lastFrom = m.currentState,
                           !.sinceExit = IF m.currentState = STATE_AP_MODE
                                        THEN "left" ELSE m.sinceExit,
                           !.visited = m.visited \cup {newState}]
       IN CASE newState = STATE_SHOWING_IP ->
                 [m1 EXCEPT !.ipScrollingStarted = FALSE]
            [] newState = STATE_AP_MODE ->
                 [m1 EXCEPT !.ipScrollingStarted = FALSE,
                            !.portalStarts = 0]
            [] OTHER -> m1

\* changeState() without the reset of ipScrollingStarted on entry to
\* STATE_SHOWING_IP
changeStateKeepScroll(m, newState) ==
  IF newState = m.currentState THEN m
  ELSE LET m1 == [m EXCEPT !.previousState = m.currentState,
                           !.currentState = newState,
                           !.stateEnteredAt = m.clock,
                           !.lastFrom = m.currentState,
                           !.sinceExit = IF m.currentState = STATE_AP_MODE
                                        THEN "left" ELSE m.sinceExit,
                           !.visited = m.visited \cup {newState}]
       IN CASE newState = STATE_WIFI_LOST ->
                 [m1 EXCEPT !.reconnectAttempts = 0,
                            !.reconnectInterval = INITIAL_RECONNECT_INTERVAL,
                            !.lastReconnectAttempt = 0,
                            !.lostEnteredAt = m.clock]
            [] newState = STATE_AP_MODE ->
                 [m1 EXCEPT !.ipScrollingStarted = FALSE,
                            !.portalStarts = 0]
            [] OTHER -> m1

\* void changeState(ClockState newState)
changeState(m, newState) ==
  IF newState = m.currentState THEN m
  ELSE LET m1 == [m EXCEPT !.previousState = m.currentState,
                           !.currentState = newState,
                           !.stateEnteredAt = m.clock,
                           !.lastFrom = m.currentState,
                           !.sinceExit = IF m.currentState = STATE_AP_MODE
                                        THEN "left" ELSE m.sinceExit,
                           !.visited = m.visited \cup {newState}]
       IN CASE newState = STATE_SHOWING_IP ->
                 [m1 EXCEPT !.ipScrollingStarted = FALSE]
            [] newState = STATE_WIFI_LOST ->
                 [m1 EXCEPT !.reconnectAttempts = 0,
                            !.reconnectInterval = INITIAL_RECONNECT_INTERVAL,
                            !.lastReconnectAttempt = 0,
                            !.lostEnteredAt = m.clock]
            [] newState = STATE_AP_MODE ->
                 [m1 EXCEPT !.ipScrollingStarted = FALSE,
                            !.portalStarts = 0]
            [] OTHER -> m1

\* bool attemptNtpSync(): configTime, delay(500), then up to five reads of
\* getLocalTime with a 1000 ms timeout and a 200 ms pause after each failure
NtpSyncMs(ok) == IF ok THEN 500 ELSE 500 + 5 * (1000 + 200)
attemptNtpSync(m, ok) ==
  delay([Call(m, "attemptNtpSync") EXCEPT
           !.sinceExit = IF m.sinceExit = "left" THEN "synced" ELSE m.sinceExit],
        NtpSyncMs(ok))

\* void startWifiReconnect(): disconnect, read the saved credentials, begin
startWifiReconnect(m) ==
  LET m1 == delay([Call(m, "startWifiReconnect") EXCEPT
                     !.wifiStatus = FALSE, !.staBegun = FALSE], 100)
  IN IF m1.savedSSID
     THEN [Call(m1, "WiFi.begin") EXCEPT !.staBegun = TRUE, !.apActive = FALSE]
     ELSE m1

\* onImprovWiFiConnect + onImprovWiFiConnected, as run by handleSerial() when
\* a provisioning request arrives: begin with the given credentials, poll the
\* link every 500 ms up to 20 times; on success set improvConnected and save
\* the credentials
IMPROV_POLL_MS   == 500
IMPROV_POLLS     == 20
handleSerial(m, improv) ==
  CASE improv = "none" -> m
    [] improv = "connect" ->
         inferTimezone(
           [delay(Call(m, "onImprovWiFiConnect"), IMPROV_POLL_MS) EXCEPT
              !.apActive = FALSE, !.staBegun = TRUE, !.wifiStatus = TRUE,
              !.improvConnected = TRUE, !.savedSSID = TRUE,
              !.everConnected = TRUE, !.everProvisioned = TRUE,
              !.resetSince = FALSE, !.preemptions = 0])
    [] improv = "fail" ->
         [delay(Call(m, "onImprovWiFiConnect"), IMPROV_POLL_MS * IMPROV_POLLS)
            EXCEPT !.apActive = FALSE, !.staBegun = TRUE, !.wifiStatus = FALSE]

\* the preemption check has fired: one more transition made by it since the
\* last provisioning request that connected (history, counted up to 2)
preempted(m) == [m EXCEPT !.preemptions = Min(m.preemptions + 1, 2)]

\* the preemption check without its exclusion of the connected states
improvPreemptionAnywhere(m) ==
  IF m.improvConnected /\ m.wifiStatus
  THEN LET m1 == IF m.currentState = STATE_AP_MODE
                 THEN [Call(m, "softAPdisconnect") EXCEPT !.apActive = FALSE]
                 ELSE m
       IN changeStateAlways(beepBlocking(preempted(m1), 100), STATE_NTP_SYNCING)
  ELSE m

\* the preemption check without the teardown of the portal
improvPreemptionKeepAp(m) ==
  IF /\ m.improvConnected
     /\ m.wifiStatus
     /\ m.currentState # STATE_NTP_SYNCING
     /\ m.currentState # STATE_SHOWING_IP
     /\ m.currentState # STATE_RUNNING
  THEN changeState(beepBlocking(preempted(m), 100), STATE_NTP_SYNCING)
  ELSE m

\* loop(), lines 536-551: "Check if Improv just connected us"
improvPreemption(m) ==
  IF /\ m.improvConnected
     /\ m.wifiStatus
     /\ m.currentState # STATE_NTP_SYNCING
     /\ m.currentState # STATE_SHOWING_IP
     /\ m.currentState # STATE_RUNNING
  THEN LET m1 == IF m.currentState = STATE_AP_MODE
                 THEN [Call(m, "softAPdisconnect") EXCEPT !.apActive = FALSE]
                 ELSE m
       IN changeState(beepBlocking(preempted(m1), 100), STATE_NTP_SYNCING)
  ELSE m

\* ESP.restart() or a power cycle: setup() runs again, on the Preferences as
\* they stand; the buttons and the address the network would give stay
restart(m) ==
  [m EXCEPT
     !.currentState = STATE_BOOT, !.previousState = STATE_BOOT,
     !.clock = SETUP_MS, !.stateEnteredAt = SETUP_MS, !.lastTimeUpdate = 0,
     !.displayBrightness = (IF m.prefBrightness = PREF_UNSET
                            THEN DEFAULT_BRIGHTNESS ELSE m.prefBrightness),
     !.use24Hour = (m.pref24hour # "12"),
     !.improvConnected = FALSE, !.lastReconnectAttempt = 0,
     !.reconnectInterval = INITIAL_RECONNECT_INTERVAL,
     !.reconnectAttempts = 0, !.ipScrollingStarted = FALSE,
     !.ipScrollDuration = 0, !.lastButtonPress = 0,
     !.lastModeState = FALSE, !.lastUpState = FALSE, !.lastDownState = FALSE,
     !.modePressStart = 0, !.modeLongPressHandled = FALSE,
     !.now = 0, !.stateElapsed = 0,
     !.wifiStatus = FALSE, !.staBegun = FALSE, !.apActive = FALSE,
     !.display = "3.01", !.improvPending = "none",
     !.beepEndTime = 0, !.beepActive = FALSE, !.webPending = NoRequest,
     !.boots = m.boots + 1,
     !.calls = Append(m.calls, "restart"), !.lastFrom = STATE_BOOT, !.bootAt = SETUP_MS,
     !.visited = {STATE_BOOT}, !.prevVisited = m.visited,
     !.holdSince = -1, !.holdFires = 0,
     !.btnScrollDuration = 0, !.lostEnteredAt = 0, !.lastWait = 0,
     !.beepStart = 0, !.beepDuration = 0, !.beepRan = 0,
     !.lastActionAt = -1, !.actionGap = BUTTON_SPACING_MS,
     !.sinceExit = "none",
     !.preemptions = 0,
     !.portalStarts = 0,
     !.gesture = "none",
     !.gestureActs = 0,
     !.buffer = EmptyBuffer,
     !.head = 0,
     !.tail = 0,
     !.count = 0,
     !.unread = << >>,
     !.lastRead = NO_READ,
     !.loopCall = NoCall,
     !.eventCall = NoCall,
     !.ringOps = 0]

\* void handleSave(): the form of the portal, lines 954-994
handleSave(m, req) ==
  LET inRange == req.hasBrightness /\ req.brightness >= 0
                 /\ req.brightness <= 15
      m1 == [Call(m, "handleSave") EXCEPT
               !.savedSSID = req.ssid,
               !.prefTimezone = req.timezone,
               !.prefBrightness = IF inRange THEN req.brightness ELSE @,
               !.displayBrightness = IF inRange THEN req.brightness ELSE @,
               !.pref24hour = IF req.hourFormat = "unset" THEN @
                              ELSE IF req.hourFormat = "24" THEN "24" ELSE "12",
               !.use24Hour = IF req.hourFormat = "unset" THEN @
                             ELSE req.hourFormat = "24",
               !.resetSince = FALSE]
  IN restart(delay(m1, 1000))

\* handleFactoryReset() that clears the "ntp_clock" namespace only
handleFactoryResetKeepWifi(m) ==
  LET m1 == [Call(m, "handleFactoryReset") EXCEPT
               !.prefBrightness = PREF_UNSET,
               !.pref24hour = "unset",
               !.prefTimezone = PREF_UNSET,
               !.resetSince = TRUE]
  IN restart(delay(m1, 1000))

\* void handleFactoryReset(), lines 996-1008
handleFactoryReset(m) ==
  LET m1 == [Call(m, "handleFactoryReset") EXCEPT
               !.savedSSID = FALSE,
               !.prefBrightness = PREF_UNSET,
               !.pref24hour = "unset",
               !.prefTimezone = PREF_UNSET,
               !.resetSince = TRUE]
  IN restart(delay(m1, 1000))

\* server.handleClient(): the request that has arrived, if any
handleClient(m) ==
  CASE m.webPending.kind = "save" -> handleSave(m, m.webPending)
    [] m.webPending.kind = "reset" -> handleFactoryReset(m)
    [] OTHER -> m

\* loop(), lines 520-559 up to the call of handleButtons()
loopBegin(m) ==
  LET m0 == [m EXCEPT !.now = m.clock,
                      !.stateElapsed = Sub32(m.clock, m.stateEnteredAt),
                      !.calls = << >>,
                      !.improvPending = "none"]
  IN handleClient(updateBeep(
       improvPreemption(handleSerial(m0, m.improvPending))))

\* the scroll duration with one step too few in a cycle
scrollDurationOneShort(len) ==
  (IF len > 4 THEN len - 4 ELSE 1) * SCROLL_STEP_MS * 2

\* stepsPerCycle * 350 * 2, stepsPerCycle = (len > 4) ? (len - 3) : 1
scrollDurationFor(len) ==
  (IF len > 4 THEN len - 3 ELSE 1) * SCROLL_STEP_MS * 2

\* Up + Down together, without the call of startWifiReconnect()
comboPressNoAttempt(m, t) ==
  LET m1 == startBeep(delay(startBeep(accepted(Call(m, "ForceReconnect"), t),
                                      100), 100),
                      100)
      m2 == IF m1.currentState = STATE_RUNNING \/ m1.currentState = STATE_WIFI_LOST
            THEN [changeState(m1, STATE_WIFI_LOST) EXCEPT
                    !.reconnectAttempts = 0,
                    !.reconnectInterval = INITIAL_RECONNECT_INTERVAL,
                    !.lastReconnectAttempt = 0]
            ELSE m1
  IN [m2 EXCEPT !.lastButtonPress = t]

\* Up + Down together, without the reset of reconnectInterval
comboPressKeepInterval(m, t) ==
  LET m1 == startBeep(delay(startBeep(accepted(Call(m, "ForceReconnect"), t),
                                      100), 100),
                      100)
      m2 == IF m1.currentState = STATE_RUNNING \/ m1.currentState = STATE_WIFI_LOST
            THEN startWifiReconnect(
                   [changeState(m1, STATE_WIFI_LOST) EXCEPT
                      !.reconnectAttempts = 0,
                      !.lastReconnectAttempt = 0])
            ELSE m1
  IN [m2 EXCEPT !.lastButtonPress = t]

\* Up + Down together, forcing the reconnection in every state
comboPressAnyState(m, t) ==
  LET m1 == startBeep(delay(startBeep(accepted(Call(m, "ForceReconnect"), t),
                                      100), 100),
                      100)
      m2 == startWifiReconnect(
              [changeState(m1, STATE_WIFI_LOST) EXCEPT
                 !.reconnectAttempts = 0,
                 !.reconnectInterval = INITIAL_RECONNECT_INTERVAL,
                 !.lastReconnectAttempt = 0])
  IN [m2 EXCEPT !.lastButtonPress = t]

\* handleButtons(), lines 816-832: Up + Down together
comboPress(m, t) ==
  LET m1 == startBeep(delay(startBeep(accepted(Call(m, "ForceReconnect"), t),
                                      100), 100),
                      100)
      m2 == IF m1.currentState = STATE_RUNNING \/ m1.currentState = STATE_WIFI_LOST
            THEN startWifiReconnect(
                   [changeState(m1, STATE_WIFI_LOST) EXCEPT
                      !.reconnectAttempts = 0,
                      !.reconnectInterval = INITIAL_RECONNECT_INTERVAL,
                      !.lastReconnectAttempt = 0])
            ELSE m1
  IN [m2 EXCEPT !.lastButtonPress = t]

\* handleButtons(), lines 843-890: the long press of Mode
modeLongPress(m, t) ==
  LET m1 == startBeep([accepted(Call(m, "ShowAddressRequest"), t) EXCEPT
                          !.modeLongPressHandled = TRUE,
                          !.holdFires = m.holdFires + 1], 100)
      m2 == IF m1.currentState = STATE_RUNNING /\ m1.wifiStatus
            THEN LET d == scrollDurationFor(m1.ipLen)
                 IN [delay(Call(m1, "startScrolling"), d) EXCEPT
                       !.display = "", !.lastTimeUpdate = 0,
                       !.btnScrollDuration = d]
            ELSE IF m1.currentState = STATE_AP_MODE
            THEN LET d == scrollDurationFor(AP_SSID_LEN)
                 IN [delay(Call(m1, "startScrolling"), d) EXCEPT
                       !.display = "scroll", !.ipScrollingStarted = FALSE]
            ELSE m1
  IN [m2 EXCEPT !.lastButtonPress = t]

\* Mode with the short press that does not write the Preferences
modeButtonNoSave(m, t, btnMode) ==
  LET m1 ==
        IF btnMode
        THEN IF ~m.lastModeState
             THEN [m EXCEPT !.modePressStart = t, !.modeLongPressHandled = FALSE]
             ELSE IF ~m.modeLongPressHandled
                     /\ Sub32(t, m.modePressStart) >= LONG_PRESS_MS
             THEN modeLongPress(m, t)
             ELSE m
        ELSE IF m.lastModeState /\ ~m.modeLongPressHandled
                /\ Sub32(t, m.lastButtonPress) > BUTTON_SPACING_MS
        THEN [startBeep([accepted(Call(m, "ToggleHourFormat"), t) EXCEPT
                           !.use24Hour = ~m.use24Hour], 50)
              EXCEPT !.lastButtonPress = t, !.lastTimeUpdate = 0]
        ELSE m
  IN [m1 EXCEPT !.lastModeState = btnMode]

\* handleButtons(), lines 837-905: Mode
modeButton(m, t, btnMode) ==
  LET m1 ==
        IF btnMode
        THEN IF ~m.lastModeState
             THEN [m EXCEPT !.modePressStart = t, !.modeLongPressHandled = FALSE]
             ELSE IF ~m.modeLongPressHandled
                     /\ Sub32(t, m.modePressStart) >= LONG_PRESS_MS
             THEN modeLongPress(m, t)
             ELSE m
        ELSE IF m.lastModeState /\ ~m.modeLongPressHandled
                /\ Sub32(t, m.lastButtonPress) > BUTTON_SPACING_MS
        THEN [startBeep([accepted(Call(m, "ToggleHourFormat"), t) EXCEPT
                           !.use24Hour = ~m.use24Hour,
                           !.pref24hour = IF m.use24Hour THEN "12" ELSE "24"],
                        50)
              EXCEPT !.lastButtonPress = t, !.lastTimeUpdate = 0]
        ELSE m
  IN [m1 EXCEPT !.lastModeState = btnMode]

\* Up without the test of displayBrightness < 15
upButtonUnclamped(m, t, btnUp, btnDown) ==
  LET m1 ==
        IF btnUp /\ ~btnDown /\ ~m.lastUpState
           /\ Sub32(t, m.lastButtonPress) > BUTTON_SPACING_MS
        THEN [startBeep([accepted(Call(m, "BrightnessUp"), t) EXCEPT
                !.displayBrightness = m.displayBrightness + 1,
                !.prefBrightness = m.displayBrightness + 1], 30)
              EXCEPT !.lastButtonPress = t]
        ELSE m
  IN [m1 EXCEPT !.lastUpState = btnUp]

\* handleButtons(), lines 910-922: Up
upButton(m, t, btnUp, btnDown) ==
  LET m1 ==
        IF btnUp /\ ~btnDown /\ ~m.lastUpState
           /\ Sub32(t, m.lastButtonPress) > BUTTON_SPACING_MS
        THEN [(IF m.displayBrightness < 15
               THEN startBeep([accepted(Call(m, "BrightnessUp"), t) EXCEPT
                       !.displayBrightness = m.displayBrightness + 1,
                       !.prefBrightness = m.displayBrightness + 1], 30)
               ELSE m)
              EXCEPT !.lastButtonPress = t]
        ELSE m
  IN [m1 EXCEPT !.lastUpState = btnUp]

\* handleButtons(), lines 927-939: Down
downButton(m, t, btnUp, btnDown) ==
  LET m1 ==
        IF btnDown /\ ~btnUp /\ ~m.lastDownState
           /\ Sub32(t, m.lastButtonPress) > BUTTON_SPACING_MS
        THEN [(IF m.displayBrightness > 0
               THEN startBeep([accepted(Call(m, "BrightnessDown"), t) EXCEPT
                       !.displayBrightness = m.displayBrightness - 1,
                       !.prefBrightness = m.displayBrightness - 1], 30)
               ELSE m)
              EXCEPT !.lastButtonPress = t]
        ELSE m
  IN [m1 EXCEPT !.lastDownState = btnDown]

\* the hold of Mode as the pin samples show it (history)
sampleHold(m, t, btnMode) ==
  IF btnMode
  THEN IF m.holdSince = -1 THEN [m EXCEPT !.holdSince = t, !.holdFires = 0] ELSE m
  ELSE [m EXCEPT !.holdSince = -1, !.holdFires = 0]

\* the gesture of Up and Down as the pin samples show it (history): it opens
\* with the first sample that reads one of them pressed and ends with the
\* first sample that reads both released
sampleGesture(m, btnUp, btnDown) ==
  IF ~btnUp /\ ~btnDown
  THEN [m EXCEPT !.gesture = "none", !.gestureActs = 0]
  ELSE IF m.gesture = "none" THEN [m EXCEPT !.gesture = "open"] ELSE m

\* what this pass of handleButtons() did within the gesture (history)
gestureDone(m) ==
  LET did(what) == \E i \in DOMAIN m.calls : m.calls[i] = what
  IN [m EXCEPT
        !.gesture = IF did("ForceReconnect") THEN "combo" ELSE m.gesture,
        !.gestureActs = IF did("BrightnessUp") \/ did("BrightnessDown")
                        THEN Min(m.gestureActs + 1, 2) ELSE m.gestureActs]

\* void handleButtons()
handleButtons(m) ==
  LET t  == m.clock
      btnMode == m.pins[1]
      btnUp   == m.pins[2]
      btnDown == m.pins[3]
      m0 == [sampleGesture(sampleHold(m, t, btnMode), btnUp, btnDown)
               EXCEPT !.calls = << >>]
  IN gestureDone(
       IF btnUp /\ btnDown /\ Sub32(t, m0.lastButtonPress) > COMBO_SPACING_MS
       THEN comboPress(m0, t)
       ELSE downButton(upButton(modeButton(m0, t, btnMode), t, btnUp, btnDown),
                       t, btnUp, btnDown))

\* case STATE_BOOT, left one second early
caseBootEarly(m) ==
  IF m.stateElapsed >= BOOT_MS - 1000
  THEN changeState([Call(m, "display.clear") EXCEPT !.display = ""],
                   STATE_IMPROV_WAIT)
  ELSE m

\* case STATE_BOOT, the boot time tested with > in place of >=
caseBootLate(m) ==
  IF m.stateElapsed > BOOT_MS
  THEN changeState([Call(m, "display.clear") EXCEPT !.display = ""],
                   STATE_IMPROV_WAIT)
  ELSE m

\* case STATE_BOOT
caseBoot(m) ==
  IF m.stateElapsed >= BOOT_MS
  THEN changeState([Call(m, "display.clear") EXCEPT !.display = ""],
                   STATE_IMPROV_WAIT)
  ELSE m

\* case STATE_IMPROV_WAIT, the display blanked once 500 ms have elapsed
caseImprovWaitBlank(m) ==
  LET m1 == IF m.stateElapsed < 500 THEN [m EXCEPT !.display = "----"]
            ELSE [m EXCEPT !.display = ""]
  IN IF m1.wifiStatus THEN changeState(m1, STATE_NTP_SYNCING)
     ELSE IF m1.stateElapsed >= IMPROV_WAIT_MS
     THEN IF m1.savedSSID
          THEN startWifiReconnect(
                 changeState([m1 EXCEPT !.display = "Conn"],
                             STATE_WIFI_CONNECTING))
          ELSE changeState(m1, STATE_AP_MODE)
     ELSE m1

\* case STATE_IMPROV_WAIT
caseImprovWait(m) ==
  LET m1 == IF m.stateElapsed < 500 THEN [m EXCEPT !.display = "----"] ELSE m
  IN IF m1.wifiStatus THEN changeState(m1, STATE_NTP_SYNCING)
     ELSE IF m1.stateElapsed >= IMPROV_WAIT_MS
     THEN IF m1.savedSSID
          THEN startWifiReconnect(
                 changeState([m1 EXCEPT !.display = "Conn"],
                             STATE_WIFI_CONNECTING))
          ELSE changeState(m1, STATE_AP_MODE)
     ELSE m1

\* case STATE_WIFI_CONNECTING, the timeout leading to STATE_WIFI_LOST
caseWifiConnectingToLost(m) ==
  IF m.wifiStatus
  THEN changeState(inferTimezone(beepBlocking(m, 100)), STATE_NTP_SYNCING)
  ELSE IF m.stateElapsed >= CONNECT_TIMEOUT_MS
  THEN changeState(m, STATE_WIFI_LOST)
  ELSE m

\* case STATE_WIFI_CONNECTING, the timeout forgetting the saved network
caseWifiConnectingForget(m) ==
  IF m.wifiStatus
  THEN changeState(inferTimezone(beepBlocking(m, 100)), STATE_NTP_SYNCING)
  ELSE IF m.stateElapsed >= CONNECT_TIMEOUT_MS
  THEN changeState([m EXCEPT !.savedSSID = FALSE], STATE_AP_MODE)
  ELSE m

\* case STATE_WIFI_CONNECTING
caseWifiConnecting(m) ==
  IF m.wifiStatus
  THEN changeState(inferTimezone(beepBlocking(m, 100)), STATE_NTP_SYNCING)
  ELSE IF m.stateElapsed >= CONNECT_TIMEOUT_MS
  THEN changeState(m, STATE_AP_MODE)
  ELSE m

\* case STATE_NTP_SYNCING
caseNtpSyncing(m, ntpOk) ==
  LET m1 == attemptNtpSync([m EXCEPT !.display = "Sync"], ntpOk)
  IN IF ntpOk
     THEN changeState(
            beepBlocking(delay(beepBlocking(m1, 50), 100), 50),
            STATE_SHOWING_IP)
     ELSE IF m1.stateElapsed >= NTP_TIMEOUT_MS
     THEN changeState(m1, STATE_SHOWING_IP)
     ELSE m1

\* case STATE_SHOWING_IP
caseShowingIp(m) ==
  LET m1 == IF ~m.ipScrollingStarted
            THEN [Call(m, "startScrolling") EXCEPT
                    !.display = "scroll",
                    !.ipScrollingStarted = TRUE,
                    !.ipScrollDuration = scrollDurationFor(m.ipLen)]
            ELSE m
  IN IF m1.stateElapsed >= m1.ipScrollDuration
     THEN changeState([Call(m1, "display.clear") EXCEPT !.display = ""],
                      STATE_RUNNING)
     ELSE m1

\* case STATE_RUNNING
caseRunning(m, timeOk) ==
  IF ~m.wifiStatus
  THEN changeState(delay([m EXCEPT !.display = "rCon"], 500), STATE_WIFI_LOST)
  ELSE IF Sub32(m.now, m.lastTimeUpdate) >= 1000
  THEN [m EXCEPT !.lastTimeUpdate = m.now,
                 !.display = IF timeOk THEN "time" ELSE "Sync"]
  ELSE m

\* case STATE_WIFI_LOST, the doubling without the cap
caseWifiLostUncapped(m, ntpOk) ==
  IF m.wifiStatus
  THEN LET m1 == attemptNtpSync(beepBlocking(m, 100), ntpOk)
           m2 == IF ntpOk THEN beepBlocking(m1, 50) ELSE m1
       IN changeState(m2, STATE_RUNNING)
  ELSE LET m1 ==
             IF Sub32(m.now, m.lastReconnectAttempt) >= m.reconnectInterval
             THEN [startWifiReconnect(
                     [m EXCEPT !.lastReconnectAttempt = m.now,
                               !.reconnectAttempts = m.reconnectAttempts + 1,
                               !.display = "rNNN"])
                   EXCEPT !.reconnectInterval =
                     (m.reconnectInterval * 2) % Word32]
             ELSE m
       IN IF m1.reconnectAttempts >= MAX_RECONNECT_BEFORE_AP
          THEN changeState(m1, STATE_AP_MODE)
          ELSE m1

\* case STATE_WIFI_LOST, the fallback tested with > in place of >=
caseWifiLostOneMore(m, ntpOk) ==
  IF m.wifiStatus
  THEN LET m1 == attemptNtpSync(beepBlocking(m, 100), ntpOk)
           m2 == IF ntpOk THEN beepBlocking(m1, 50) ELSE m1
       IN changeState(m2, STATE_RUNNING)
  ELSE LET m1 ==
             IF Sub32(m.now, m.lastReconnectAttempt) >= m.reconnectInterval
             THEN [startWifiReconnect(
                     [m EXCEPT !.lastReconnectAttempt = m.now,
                               !.reconnectAttempts = m.reconnectAttempts + 1,
                               !.display = "rNNN"])
                   EXCEPT !.reconnectInterval =
                     Min((m.reconnectInterval * 2) % Word32,
                         MAX_RECONNECT_INTERVAL)]
             ELSE m
       IN IF m1.reconnectAttempts > MAX_RECONNECT_BEFORE_AP
          THEN changeState(m1, STATE_AP_MODE)
          ELSE m1

\* case STATE_WIFI_LOST, the attempt counter cleared on reconnection
caseWifiLostCleared(m, ntpOk) ==
  IF m.wifiStatus
  THEN LET m1 == attemptNtpSync(beepBlocking(m, 100), ntpOk)
           m2 == IF ntpOk THEN beepBlocking(m1, 50) ELSE m1
       IN [changeState(m2, STATE_RUNNING) EXCEPT !.reconnectAttempts = 0]
  ELSE LET m1 ==
             IF Sub32(m.now, m.lastReconnectAttempt) >= m.reconnectInterval
             THEN [startWifiReconnect(
                     [m EXCEPT !.lastReconnectAttempt = m.now,
                               !.reconnectAttempts = m.reconnectAttempts + 1,
                               !.display = "rNNN"])
                   EXCEPT !.reconnectInterval =
                     Min((m.reconnectInterval * 2) % Word32,
                         MAX_RECONNECT_INTERVAL)]
             ELSE m
       IN IF m1.reconnectAttempts >= MAX_RECONNECT_BEFORE_AP
          THEN changeState(m1, STATE_AP_MODE)
          ELSE m1

\* case STATE_WIFI_LOST without the fallback to STATE_AP_MODE
caseWifiLostForever(m, ntpOk) ==
  IF m.wifiStatus
  THEN LET m1 == attemptNtpSync(beepBlocking(m, 100), ntpOk)
           m2 == IF ntpOk THEN beepBlocking(m1, 50) ELSE m1
       IN changeState(m2, STATE_RUNNING)
  ELSE IF Sub32(m.now, m.lastReconnectAttempt) >= m.reconnectInterval
  THEN [startWifiReconnect(
          [m EXCEPT !.lastReconnectAttempt = m.now,
                    !.reconnectAttempts = Min(m.reconnectAttempts + 1, 40),
                    !.display = "rNNN"])
        EXCEPT !.reconnectInterval =
          Min((m.reconnectInterval * 2) % Word32, MAX_RECONNECT_INTERVAL)]
  ELSE m

\* case STATE_WIFI_LOST; lastWait is the time since the attempt before, or
\* since the state was entered (history)
caseWifiLost(m, ntpOk) ==
  IF m.wifiStatus
  THEN LET m1 == attemptNtpSync(beepBlocking(m, 100), ntpOk)
           m2 == IF ntpOk THEN beepBlocking(m1, 50) ELSE m1
       IN changeState(m2, STATE_RUNNING)
  ELSE LET m1 ==
             IF Sub32(m.now, m.lastReconnectAttempt) >= m.reconnectInterval
             THEN [startWifiReconnect(
                     [m EXCEPT !.lastReconnectAttempt = m.now,
                               !.reconnectAttempts = m.reconnectAttempts + 1,
                               !.lastWait =
                                 Sub32(m.now, IF m.reconnectAttempts = 0
                                              THEN m.lostEnteredAt
                                              ELSE m.lastReconnectAttempt),
                               !.display = "rNNN"])
                   EXCEPT !.reconnectInterval =
                     Min((m.reconnectInterval * 2) % Word32,
                         MAX_RECONNECT_INTERVAL)]
             ELSE m
       IN IF m1.reconnectAttempts >= MAX_RECONNECT_BEFORE_AP
          THEN changeState(m1, STATE_AP_MODE)
          ELSE m1

\* case STATE_AP_MODE, leaving for the address display without a time sync
caseApModeNoSync(m) ==
  LET m1 == IF m.previousState # STATE_AP_MODE
            THEN [beepBlocking(delay(Call(m, "softAP"), 500), 200) EXCEPT
                    !.apActive = TRUE, !.wifiStatus = FALSE,
                    !.staBegun = FALSE, !.previousState = STATE_AP_MODE,
                    !.portalStarts = Min(m.portalStarts + 1, 2)]
            ELSE m
  IN IF m1.wifiStatus
     THEN changeState(
            beepBlocking(delay(beepBlocking(
              [Call(m1, "softAPdisconnect") EXCEPT !.apActive = FALSE],
              100), 100), 100),
            STATE_SHOWING_IP)
     ELSE IF ~m1.ipScrollingStarted
     THEN [Call(m1, "startScrolling") EXCEPT
             !.display = "scroll", !.ipScrollingStarted = TRUE]
     ELSE m1

\* case STATE_AP_MODE, without the mark that the portal has been started
caseApModeRestarts(m) ==
  LET m1 == IF m.previousState # STATE_AP_MODE
            THEN [beepBlocking(delay(Call(m, "softAP"), 500), 200) EXCEPT
                    !.apActive = TRUE, !.wifiStatus = FALSE,
                    !.staBegun = FALSE,
                    !.portalStarts = Min(m.portalStarts + 1, 2)]
            ELSE m
  IN IF m1.wifiStatus
     THEN changeState(
            beepBlocking(delay(beepBlocking(
              [Call(m1, "softAPdisconnect") EXCEPT !.apActive = FALSE],
              100), 100), 100),
            STATE_NTP_SYNCING)
     ELSE IF ~m1.ipScrollingStarted
     THEN [Call(m1, "startScrolling") EXCEPT
             !.display = "scroll", !.ipScrollingStarted = TRUE]
     ELSE m1

\* case STATE_AP_MODE
caseApMode(m) ==
  LET m1 == IF m.previousState # STATE_AP_MODE
            THEN [beepBlocking(delay(Call(m, "softAP"), 500), 200) EXCEPT
                    !.apActive = TRUE, !.wifiStatus = FALSE,
                    !.staBegun = FALSE, !.previousState = STATE_AP_MODE,
                    !.portalStarts = Min(m.portalStarts + 1, 2)]
            ELSE m
  IN IF m1.wifiStatus
     THEN changeState(
            beepBlocking(delay(beepBlocking(
              [Call(m1, "softAPdisconnect") EXCEPT !.apActive = FALSE],
              100), 100), 100),
            STATE_NTP_SYNCING)
     ELSE IF ~m1.ipScrollingStarted
     THEN [Call(m1, "startScrolling") EXCEPT
             !.display = "scroll", !.ipScrollingStarted = TRUE]
     ELSE m1

\* loop(), lines 564-796: the switch on currentState
stateSwitch(m, ntpOk, timeOk) ==
  CASE m.currentState = STATE_BOOT            -> caseBoot(m)
    [] m.currentState = STATE_IMPROV_WAIT     -> caseImprovWait(m)
    [] m.currentState = STATE_WIFI_CONNECTING -> caseWifiConnecting(m)
    [] m.currentState = STATE_NTP_SYNCING     -> caseNtpSyncing(m, ntpOk)
    [] m.currentState = STATE_SHOWING_IP      -> caseShowingIp(m)
    [] m.currentState = STATE_RUNNING         -> caseRunning(m, timeOk)
    [] m.currentState = STATE_WIFI_LOST       -> caseWifiLost(m, ntpOk)
    [] m.currentState = STATE_AP_MODE         -> caseApMode(m)

\* ---- the inputs the model draws ----
IpLens       == {7, 11}
OneIpLen     == {11}
ImprovInputs == {"connect", "fail"}
ConnectOnly  == {"connect"}
\* <<Mode, Up, Down>> as the pins read
ModeCombo    == {<<FALSE, FALSE, FALSE>>, <<TRUE, FALSE, FALSE>>,
                 <<FALSE, TRUE, TRUE>>, <<TRUE, TRUE, TRUE>>}
ComboOnly    == {<<FALSE, FALSE, FALSE>>, <<FALSE, TRUE, TRUE>>}
ModeOnly     == {<<FALSE, FALSE, FALSE>>, <<TRUE, FALSE, FALSE>>}
UpOnly       == {<<FALSE, FALSE, FALSE>>, <<FALSE, TRUE, FALSE>>}
ModeUp       == {<<FALSE, FALSE, FALSE>>, <<TRUE, FALSE, FALSE>>,
                 <<TRUE, TRUE, FALSE>>, <<FALSE, TRUE, FALSE>>}
UpDown       == {<<FALSE, FALSE, FALSE>>, <<FALSE, TRUE, FALSE>>,
                 <<FALSE, FALSE, TRUE>>, <<FALSE, TRUE, TRUE>>}
OneButton    == {<<FALSE, FALSE, FALSE>>, <<TRUE, FALSE, FALSE>>,
                 <<FALSE, TRUE, FALSE>>, <<FALSE, FALSE, TRUE>>}
\* the forms the portal may post: the brightness in range or out of range, or
\* absent with an hour format, with or without a network name
SaveRequests ==
  {[kind |-> "save", ssid |-> TRUE, hasBrightness |-> TRUE, brightness |-> b,
    hourFormat |-> "unset", timezone |-> DEFAULT_TIMEZONE] : b \in {-1, 0, 15, 16}}
  \cup {[kind |-> "save", ssid |-> FALSE, hasBrightness |-> FALSE,
          brightness |-> 0, hourFormat |-> "12",
          timezone |-> DEFAULT_TIMEZONE],
         [kind |-> "save", ssid |-> TRUE, hasBrightness |-> FALSE,
          brightness |-> 0, hourFormat |-> "24",
          timezone |-> DEFAULT_TIMEZONE]}
ResetRequest == [kind |-> "reset", ssid |-> FALSE, hasBrightness |-> FALSE,
                 brightness |-> 0, hourFormat |-> "unset",
                 timezone |-> DEFAULT_TIMEZONE]
WebRequests == SaveRequests \cup {ResetRequest}
\* what the Preferences of a clock that has been used may hold
StoredBrightness == {3}
StoredFormats == {"12"}
StoredTimezones == {3600}
\* the offsets a clock may hold when it connects: none, UTC, UTC+1
ConfiguredTimezones == {PREF_UNSET, 0, 3600}
\* the geolocation service out of reach, or answering UTC+2
GeoAnswers == {NO_ANSWER, 7200}
\* the lengths of the address of a second network
ScrollLens   == {7, 15}
\* the lengths of a dotted IPv4 address, "0.0.0.0" to "255.255.255.255"
AddressLens  == 7..15

\* setup(), lines 421-514: the state after construction, the Preferences
\* holding one of the given brightnesses, hour formats and offsets, the
\* geolocation service giving one of the given answers
setup(ipLens, brightnesses, formats, timezones, geoOffsets) ==
  /\ currentState = STATE_BOOT
  /\ previousState = STATE_BOOT
  /\ clock = SETUP_MS
  /\ stateEnteredAt = SETUP_MS
  /\ lastTimeUpdate = 0
  /\ prefBrightness \in brightnesses
  /\ pref24hour \in formats
  /\ displayBrightness = (IF prefBrightness = PREF_UNSET
                          THEN DEFAULT_BRIGHTNESS ELSE prefBrightness)
  /\ use24Hour = (pref24hour # "12")
  /\ improvConnected = FALSE
  /\ lastReconnectAttempt = 0
  /\ reconnectInterval = INITIAL_RECONNECT_INTERVAL
  /\ reconnectAttempts = 0
  /\ ipScrollingStarted = FALSE
  /\ ipScrollDuration = 0
  /\ lastButtonPress = 0
  /\ lastModeState = FALSE
  /\ lastUpState = FALSE
  /\ lastDownState = FALSE
  /\ modePressStart = 0
  /\ modeLongPressHandled = FALSE
  /\ now = 0
  /\ stateElapsed = 0
  /\ pc = "loop"
  /\ wifiStatus = FALSE
  /\ staBegun = FALSE
  /\ apActive = FALSE
  /\ savedSSID \in BOOLEAN
  /\ display = "3.01"
  /\ ipLen \in ipLens
  /\ pins = <<FALSE, FALSE, FALSE>>
  /\ improvPending = "none"
  /\ pinChanges = 0
  /\ linkChanges = 0
  /\ provisions = 0
  /\ calls = << >>
  /\ lastFrom = STATE_BOOT
  /\ bootAt = SETUP_MS
  /\ visited = {STATE_BOOT}
  /\ everConnected = FALSE
  /\ everProvisioned = FALSE
  /\ holdSince = -1
  /\ holdFires = 0
  /\ btnScrollDuration = 0
  /\ beepEndTime = 0
  /\ beepActive = FALSE
  /\ webPending = NoRequest
  /\ webRequests = 0
  /\ boots = 0
  /\ lostEnteredAt = 0
  /\ lastWait = 0
  /\ beepStart = 0
  /\ beepDuration = 0
  /\ beepRan = 0
  /\ resetSince = FALSE
  /\ linkDead = FALSE
  /\ sleeps = 0
  /\ prevVisited = {}
  /\ prefTimezone \in timezones
  /\ geoOffset \in geoOffsets
  /\ lastActionAt = -1
  /\ actionGap = BUTTON_SPACING_MS
  /\ sinceExit = "none"
  /\ preemptions = 0
  /\ portalStarts = 0
  /\ gesture = "none"
  /\ gestureActs = 0
  /\ buffer = EmptyBuffer
  /\ head = 0
  /\ tail = 0
  /\ count = 0
  /\ unread = << >>
  /\ lastRead = NO_READ
  /\ loopCall = NoCall
  /\ eventCall = NoCall
  /\ ringOps = 0

\* the state after construction of a device whose Preferences hold no
\* brightness, no hour format and no offset, the geolocation service out of
\* reach
InitWith(ipLens) ==
  setup(ipLens, {PREF_UNSET}, {"unset"}, {PREF_UNSET}, {NO_ANSWER})

\* One whole iteration of loop() with the inputs as they stand, up to its
\* closing delay; the time reads of attemptNtpSync and getLocalTime fail.
iteration(m) == stateSwitch(handleButtons(loopBegin(m)), FALSE, FALSE)

\* An iteration started now would change nothing and call no delay.
quiet(m) ==
  LET r == iteration(m)
  IN [r EXCEPT !.now = m.now, !.stateElapsed = m.stateElapsed,
               !.calls = m.calls] = m

\* While the inputs stand still, the time until a timer of the code expires:
\* the timeout of the current state, the long press, the next combo, the end
\* of the beep.
timerMs(m) ==
  LET el == Sub32(m.clock, m.stateEnteredAt)
      st == CASE m.currentState = STATE_BOOT -> {BOOT_MS - el}
              [] m.currentState = STATE_IMPROV_WAIT -> {IMPROV_WAIT_MS - el}
              [] m.currentState = STATE_WIFI_CONNECTING -> {CONNECT_TIMEOUT_MS - el}
              [] m.currentState = STATE_SHOWING_IP -> {m.ipScrollDuration - el}
              [] m.currentState = STATE_RUNNING ->
                   {1000 - Sub32(m.clock, m.lastTimeUpdate)}
              [] m.currentState = STATE_WIFI_LOST ->
                   {m.reconnectInterval - Sub32(m.clock, m.lastReconnectAttempt)}
              [] OTHER -> {}
      lp == IF m.pins[1] /\ m.lastModeState /\ ~m.modeLongPressHandled
            THEN {LONG_PRESS_MS - Sub32(m.clock, m.modePressStart)} ELSE {}
      cb == IF m.pins[2] /\ m.pins[3]
            THEN {COMBO_SPACING_MS + 1 - Sub32(m.clock, m.lastButtonPress)}
            ELSE {}
      bp == IF m.beepActive THEN {m.beepEndTime - m.clock} ELSE {}
  IN {d \in st \cup lp \cup cb \cup bp : d > 0}

\* Iterations of loop() in which nothing happens, taken in one step: up to the
\* first iteration that starts at or after the next timer expiry or the next
\* multiple of quantum ms, whichever comes first.
idleMs(m, quantum) ==
  LET toGrid == quantum - (m.clock % quantum)
      ds     == timerMs(m) \cup {toGrid}
      d      == CHOOSE x \in ds : \A y \in ds : x <= y
  IN ((d + LOOP_DELAY_MS - 1) \div LOOP_DELAY_MS) * LOOP_DELAY_MS

Idle(quantum, running) ==
  /\ pc = "loop"
  /\ running
  /\ quiet(M)
  /\ Commit([M EXCEPT !.clock = Add32(clock, idleMs(M, quantum))])
  /\ pc' = pc

\* loop() up to handleButtons(): sample now, handleSerial(), preemption check,
\* updateBeep(), server.handleClient(); after ESP.restart() loop() starts anew
LoopBegin(running) ==
  /\ pc = "loop"
  /\ running
  /\ ~quiet(M)
  /\ LET r == loopBegin(M)
     IN /\ Commit(r)
        /\ pc' = IF r.boots # boots THEN "loop" ELSE "buttons"

\* loop(): the call of handleButtons()
HandleButtons ==
  /\ pc = "buttons"
  /\ Commit(handleButtons(M))
  /\ pc' = "switch"

\* loop(): the switch on currentState and the closing delay(10)
StateMachine ==
  /\ pc = "switch"
  /\ \E ntpOk \in BOOLEAN, timeOk \in BOOLEAN :
       /\ ntpOk => wifiStatus
       /\ Commit(delay(stateSwitch([M EXCEPT !.calls = << >>], ntpOk, timeOk),
                       LOOP_DELAY_MS))
  /\ pc' = "loop"

\* ---- the environment, between two iterations ----
\* the station associates with the access point it was told to join
RadioUp(running, budget) ==
  /\ pc = "loop" /\ running /\ linkChanges < budget
  /\ staBegun /\ ~wifiStatus
  /\ Commit([M EXCEPT !.wifiStatus = TRUE, !.everConnected = TRUE,
                      !.linkChanges = linkChanges + 1])
  /\ pc' = pc

\* the link drops
RadioDown(running, budget) ==
  /\ pc = "loop" /\ running /\ linkChanges < budget
  /\ wifiStatus
  /\ Commit([M EXCEPT !.wifiStatus = FALSE,
                      !.linkChanges = linkChanges + 1])
  /\ pc' = pc

\* the buttons are pressed or released
PinsChange(running, buttons, budget) ==
  /\ pc = "loop" /\ running /\ pinChanges < budget
  /\ \E b \in buttons :
       /\ b # pins
       /\ Commit([M EXCEPT !.pins = b, !.pinChanges = pinChanges + 1])
  /\ pc' = pc

\* a provisioning request arrives on the serial line
Provision(running, kinds, budget) ==
  /\ pc = "loop" /\ running /\ provisions < budget
  /\ improvPending = "none"
  /\ \E k \in kinds :
       Commit([M EXCEPT !.improvPending = k, !.provisions = provisions + 1])
  /\ pc' = pc

\* while the link is down the station moves to a network where WiFi.localIP()
\* has another length
Lease(running, lens, budget) ==
  /\ pc = "loop" /\ running /\ linkChanges < budget
  /\ ~wifiStatus
  /\ \E l \in lens \ {ipLen} :
       Commit([M EXCEPT !.ipLen = l, !.linkChanges = linkChanges + 1])
  /\ pc' = pc

\* the access point goes away for good: the link is down from now on, and
\* nothing arrives on the serial line
LinkDies(running) ==
  /\ pc = "loop" /\ running /\ ~linkDead
  /\ improvPending = "none"
  /\ Commit([M EXCEPT !.wifiStatus = FALSE, !.linkDead = TRUE])
  /\ pc' = pc

\* a request reaches the web server, over the access point of the portal or
\* over the network the station has joined
WebRequest(running, requests, budget) ==
  /\ pc = "loop" /\ running /\ webRequests < budget
  /\ apActive \/ wifiStatus
  /\ webPending = NoRequest
  /\ \E q \in requests :
       Commit([M EXCEPT !.webPending = q, !.webRequests = webRequests + 1])
  /\ pc' = pc

\* the power is cut and comes back
PowerCycle(running, budget) ==
  /\ pc = "loop" /\ running /\ boots < budget
  /\ Commit(restart([M EXCEPT !.calls = << >>]))
  /\ pc' = pc

\* Weeks of STATE_RUNNING with the link up and no input, taken in one step: a
\* whole number of display refreshes, 1000 ms each, up to the last WrapLead ms
\* before millis() overflows. Nothing but the clock and the time of the last
\* refresh differs after them.
DaysPass(running, budget) ==
  /\ pc = "loop" /\ running /\ sleeps < budget
  /\ currentState = STATE_RUNNING /\ wifiStatus
  /\ pins = <<FALSE, FALSE, FALSE>>
  /\ improvPending = "none" /\ webPending = NoRequest
  /\ quiet(M)
  /\ clock < Word32 - WrapLead
  /\ LET k == (Word32 - WrapLead - clock + 999) \div 1000
         d == 1000 * k
     IN Commit([M EXCEPT !.clock = clock + d,
                         !.lastTimeUpdate = lastTimeUpdate + d,
                         !.now = now + d,
                         !.stateElapsed = Sub32(now + d, stateEnteredAt),
                         !.sleeps = sleeps + 1])
  /\ pc' = pc

\* ---- the specifications ----
Init == InitWith(OneIpLen)

\* A run is followed for MaxTime ms, and a visit to STATE_WIFI_LOST that has
\* begun by then, the buttons released, to its end.
Running ==
  \/ clock < MaxTime
  \/ /\ currentState = STATE_WIFI_LOST
     /\ pins = <<FALSE, FALSE, FALSE>>
     /\ clock < MaxTimeLong
Step == IF clock < MaxTime THEN Quantum ELSE MaxTimeLong

\* the machine, the link and the Up+Down gesture, made where it acts on the
\* machine: while the clock runs or the link is lost
Next ==
  \/ LoopBegin(Running)
  \/ HandleButtons
  \/ StateMachine
  \/ Idle(Step, Running)
  \/ RadioUp(clock < MaxTime, MaxLinkChanges)
  \/ RadioDown(clock < MaxTime, MaxLinkChanges)
  \/ PinsChange(clock < MaxTime /\ currentState \in {STATE_RUNNING, STATE_WIFI_LOST},
                ComboOnly, MaxComboChanges)

Spec == Init /\ [][Next]_vars

\* the machine, the link and provisioning over the serial line
NextProvision ==
  \/ LoopBegin(clock < MaxTimeProvision)
  \/ HandleButtons
  \/ StateMachine
  \/ Idle(Quantum, clock < MaxTimeProvision)
  \/ RadioUp(clock < MaxTimeProvision, MaxLinkChanges)
  \/ RadioDown(clock < MaxTimeProvision, MaxLinkChanges)
  \/ Provision(clock < MaxTimeProvision, ImprovInputs, MaxProvisions)

SpecProvision == Init /\ [][NextProvision]_vars

\* provisioning that succeeds, arriving in any state of the machine: the link
\* comes up once and drops once at most
NextPreempt ==
  \/ LoopBegin(clock < MaxTimePreempt)
  \/ HandleButtons
  \/ StateMachine
  \/ Idle(Quantum, clock < MaxTimePreempt)
  \/ RadioUp(clock < MaxTimePreempt, MaxLinkPreempt)
  \/ RadioDown(clock < MaxTimePreempt, MaxLinkPreempt)
  \/ Provision(clock < MaxTimePreempt, ConnectOnly, MaxProvisions)

SpecPreempt == Init /\ [][NextPreempt]_vars

\* the link that goes down for good: until then it comes and goes, and a
\* provisioning request may succeed at power-on; from then on the machine is
\* followed until it has opened the portal. loop() is called again and again: the steps of the
\* machine are taken whenever they stay enabled.
RunningDown ==
  \/ clock < MaxTimeDown
  \/ /\ linkDead
     /\ currentState # STATE_AP_MODE \/ ~apActive
     /\ clock < MaxTimeLong
StepDown == IF clock < MaxTimeDown THEN Quantum ELSE MaxTimeLong
Machine ==
  \/ LoopBegin(RunningDown)
  \/ HandleButtons
  \/ StateMachine
  \/ Idle(StepDown, RunningDown)
NextDown ==
  \/ Machine
  \/ RadioUp(clock < MaxTimeDown /\ ~linkDead, MaxLinkPreempt)
  \/ RadioDown(clock < MaxTimeDown /\ ~linkDead, MaxLinkPreempt)
  \/ Provision(~linkDead /\ currentState = STATE_BOOT, ConnectOnly,
               MaxProvisions)
  \/ LinkDies(clock < MaxTimeDown)

\* The steps of the machine are the steps that move pc or the clock, and one
\* is possible in the middle of an iteration and whenever the run is followed.
Position == <<pc, clock>>
MachineStep ==
  /\ pc # "loop" \/ RunningDown
  /\ pc' \in {"loop", "buttons", "switch"}
  /\ clock' \in 0..(Word32 - 1)

SpecDown == Init /\ [][NextDown]_vars /\ WF_Position(MachineStep)

\* the overflow of millis(): provisioning at power-on, weeks of clock display,
\* then Up pressed or the link dropping in the last second before the counter
\* wraps, followed for MaxTimeWrap ms after it
NearWrap == clock >= Word32 - WrapLead
RunningWrap == clock < MaxTimeWrap \/ NearWrap
StepWrap == IF NearWrap THEN WrapQuantum ELSE Quantum
NextWrap ==
  \/ LoopBegin(RunningWrap)
  \/ HandleButtons
  \/ StateMachine
  \/ Idle(StepWrap, RunningWrap)
  \/ Provision(currentState = STATE_BOOT, ConnectOnly, MaxProvisions)
  \/ DaysPass(clock < MaxTimeWrap, MaxSleeps)
  \/ PinsChange(NearWrap, UpOnly, MaxWrapPins)
  \/ RadioDown(NearWrap, MaxWrapLink)

SpecWrap == Init /\ [][NextWrap]_vars

\* the portal and the Preferences: the web forms, the factory reset, the three
\* buttons one at a time while the clock runs,
\* provisioning at power-on, of MaxBoots boots at most; each boot is followed
\* for MaxTimePortal ms
NextPortal ==
  \/ LoopBegin(clock < MaxTimePortal)
  \/ HandleButtons
  \/ StateMachine
  \/ Idle(Quantum, clock < MaxTimePortal)
  \/ Provision(currentState = STATE_BOOT, ConnectOnly, MaxBoots)
  \/ WebRequest(clock < MaxTimePortal, WebRequests, MaxWebRequests)
  \/ PinsChange(clock < MaxTimePortal /\ currentState = STATE_RUNNING,
                OneButton, MaxPortalPins)

SpecPortal == Init /\ [][NextPortal]_vars

\* the fallback to the portal and what follows: a clock that has been used,
\* the station never associating by itself; provisioning at power-on, the
\* link dropping for good, the portal's forms and factory reset, a power
\* cycle while the portal is open. Each boot is followed for MaxTimeFallback
\* ms, and a visit to STATE_WIFI_LOST until the portal is open.
RunningFallback ==
  \/ clock < MaxTimeFallback
  \/ /\ currentState = STATE_WIFI_LOST \/ (currentState = STATE_AP_MODE /\ ~apActive)
     /\ clock < MaxTimeLong
StepFallback == IF clock < MaxTimeFallback THEN Quantum ELSE MaxTimeLong
NextFallback ==
  \/ LoopBegin(RunningFallback)
  \/ HandleButtons
  \/ StateMachine
  \/ Idle(StepFallback, RunningFallback)
  \/ Provision(currentState = STATE_BOOT, ConnectOnly, MaxProvisions)
  \/ RadioDown(clock < MaxTimeFallback /\ boots = 0, MaxWrapLink)
  \/ WebRequest(currentState = STATE_AP_MODE, WebRequests, MaxWebRequests)
  \/ PowerCycle(currentState = STATE_AP_MODE /\ apActive, MaxPowerCycles)

SpecFallback ==
  setup(OneIpLen, StoredBrightness, StoredFormats, StoredTimezones,
        {NO_ANSWER})
  /\ [][NextFallback]_vars

\* the ways out of the portal: a provisioning request that succeeds or fails
\* while the portal is open, and the station associating after a request that
\* failed
NextExit ==
  \/ LoopBegin(clock < MaxTimeExit)
  \/ HandleButtons
  \/ StateMachine
  \/ Idle(Quantum, clock < MaxTimeExit)
  \/ Provision(clock < MaxTimeExit /\ currentState = STATE_AP_MODE,
               ImprovInputs, MaxProvisions)
  \/ RadioUp(clock < MaxTimeExit /\ currentState = STATE_AP_MODE, MaxWrapLink)

SpecExit == Init /\ [][NextExit]_vars

\* the spacing of the button actions: provisioning at power-on, then Mode and
\* Up pressed and released while the clock runs, Up also while Mode is held,
\* at any multiple of SpacingQuantum ms
StepSpacing == IF currentState = STATE_RUNNING THEN SpacingQuantum ELSE Quantum
NextSpacing ==
  \/ LoopBegin(clock < MaxTimeSpacing)
  \/ HandleButtons
  \/ StateMachine
  \/ Idle(StepSpacing, clock < MaxTimeSpacing)
  \/ Provision(currentState = STATE_BOOT, ConnectOnly, MaxProvisions)
  \/ PinsChange(clock < MaxTimeSpacing /\ currentState = STATE_RUNNING,
                ModeUp, MaxSpacingPins)

SpecSpacing == Init /\ [][NextSpacing]_vars

\* the short press of Mode: provisioning at power-on, then Mode and Up pressed
\* and released while the clock runs, three changes of the pins at most, at
\* any multiple of SpacingQuantum ms
NextToggle ==
  \/ LoopBegin(clock < MaxTimeToggle)
  \/ HandleButtons
  \/ StateMachine
  \/ Idle(StepSpacing, clock < MaxTimeToggle)
  \/ Provision(currentState = STATE_BOOT, ConnectOnly, MaxProvisions)
  \/ PinsChange(clock < MaxTimeToggle /\ currentState = STATE_RUNNING,
                ModeUp, MaxTogglePins)

SpecToggle == Init /\ [][NextToggle]_vars

\* the portal held: a clock with or without a saved network, left alone until
\* the portal opens; then the station associating if it was told to, a
\* provisioning request on the clock without a saved network, Mode and
\* Up+Down pressed and released on the clock with one
NextHeld ==
  \/ LoopBegin(clock < MaxTimeHeld)
  \/ HandleButtons
  \/ StateMachine
  \/ Idle(Quantum, clock < MaxTimeHeld)
  \/ PinsChange(clock < MaxTimeHeld /\ currentState = STATE_AP_MODE /\ savedSSID,
                ModeCombo, MaxHeldPins)
  \/ RadioUp(clock < MaxTimeHeld /\ currentState = STATE_AP_MODE, MaxWrapLink)
  \/ Provision(clock < MaxTimeHeld /\ currentState = STATE_AP_MODE /\ ~savedSSID,
               ImprovInputs, MaxProvisions)

SpecHeld == Init /\ [][NextHeld]_vars

\* two visits to the portal: the portal opens, a provisioning request
\* connects, the link drops while the clock runs and STATE_WIFI_LOST is
\* followed to its fallback; the station may associate whenever it was told to
RunningRevisit ==
  \/ clock < MaxTimeExit
  \/ /\ \/ currentState = STATE_WIFI_LOST
        \/ currentState = STATE_AP_MODE /\ portalStarts = 0
     /\ clock < MaxTimeLong
StepRevisit == IF clock < MaxTimeExit THEN Quantum ELSE MaxTimeLong
NextRevisit ==
  \/ LoopBegin(RunningRevisit)
  \/ HandleButtons
  \/ StateMachine
  \/ Idle(StepRevisit, RunningRevisit)
  \/ Provision(clock < MaxTimeExit /\ currentState = STATE_AP_MODE,
               ConnectOnly, MaxProvisions)
  \/ RadioDown(clock < MaxTimeExit /\ currentState = STATE_RUNNING,
               MaxLinkPreempt)
  \/ RadioUp(currentState = STATE_AP_MODE, MaxLinkPreempt)

SpecRevisit == Init /\ [][NextRevisit]_vars

\* the machine and the buttons Mode and Up+Down, the link staying up once
\* provisioning has made it
NextButtons ==
  \/ LoopBegin(clock < MaxTimeButtons)
  \/ HandleButtons
  \/ StateMachine
  \/ Idle(Quantum, clock < MaxTimeButtons)
  \/ PinsChange(clock < MaxTimeButtons, ModeCombo, MaxPinChanges)
  \/ Provision(clock < MaxTimeButtons, ConnectOnly, MaxProvisions)

SpecButtons == Init /\ [][NextButtons]_vars

\* the machine left alone from power-on: no button, no provisioning, the
\* station never associating
NextBoot ==
  \/ LoopBegin(clock < MaxTimeBoot)
  \/ HandleButtons
  \/ StateMachine
  \/ Idle(Quantum, clock < MaxTimeBoot)

SpecBoot == InitWith(IpLens) /\ [][NextBoot]_vars

\* two visits to STATE_SHOWING_IP: provisioning at power-on, the link drops
\* while the clock runs, and a second provisioning request, from
\* STATE_WIFI_LOST or from the portal, joins a network with another address
NextScroll ==
  \/ LoopBegin(clock < MaxTimeScroll)
  \/ HandleButtons
  \/ StateMachine
  \/ Idle(Quantum, clock < MaxTimeScroll)
  \/ Provision(clock < MaxTimeScroll
                 /\ currentState \in {STATE_BOOT, STATE_WIFI_LOST, STATE_AP_MODE},
               ConnectOnly, MaxScrollProvisions)
  \/ RadioDown(clock < MaxTimeScroll /\ currentState = STATE_RUNNING,
               MaxScrollLink - 1)
  \/ Lease(clock < MaxTimeScroll /\ currentState = STATE_WIFI_LOST,
           ScrollLens, MaxScrollLink)

SpecScroll == InitWith(IpLens) /\ [][NextScroll]_vars

\* the saved network joined at power-on, for every stored offset and every
\* answer of the geolocation service
NextTimezone ==
  \/ LoopBegin(clock < MaxTimeTimezone)
  \/ HandleButtons
  \/ StateMachine
  \/ Idle(Quantum, clock < MaxTimeTimezone)
  \/ RadioUp(clock < MaxTimeTimezone, MaxWrapLink)

SpecTimezone ==
  /\ setup(OneIpLen, {PREF_UNSET}, {"unset"}, ConfiguredTimezones, GeoAnswers)
  /\ [][NextTimezone]_vars

\* the address display: provisioning at power-on, every address length,
\* Mode pressed and released while the clock runs
NextAddress ==
  \/ LoopBegin(clock < MaxTimeAddress)
  \/ HandleButtons
  \/ StateMachine
  \/ Idle(Quantum, clock < MaxTimeAddress)
  \/ PinsChange(clock < MaxTimeAddress /\ currentState = STATE_RUNNING,
                ModeOnly, MaxModeChanges)
  \/ Provision(clock < MaxTimeAddress /\ currentState = STATE_BOOT,
               ConnectOnly, MaxProvisions)

SpecAddress == InitWith(AddressLens) /\ [][NextAddress]_vars

\* ======================= the claims =======================

\* the value the claims give for the interval after n attempts,
\* min(5000 * 2^n, 300000); 5000 * 2^n is past 300000 from n = 6 on
claimedInterval(n) == IF n >= 6 THEN 300000 ELSE Min(5000 * 2^n, 300000)

\* the duration the claims give for an address of length L
claimedScroll(L) == Max(1, L - 3) * 350 * 2

\* C1: changeState(s) while the current state is already s is a no-op.  For
\* every reachable state, changeState to the current state returns the state
\* untouched; and the one such call the firmware makes, the Up+Down gesture
\* accepted in STATE_WIFI_LOST, leaves currentState, previousState and
\* stateEnteredAt as they were and restarts no scroll.
C1_SameStateNoOp ==
  [][ /\ changeState(M, currentState) = M
      /\ (pc = "buttons" /\ pc' = "switch"
          /\ currentState = STATE_WIFI_LOST /\ Called("ForceReconnect")')
         => /\ currentState' = currentState
            /\ previousState' = previousState
            /\ stateEnteredAt' = stateEnteredAt
            /\ lastFrom' = lastFrom
            /\ ipScrollingStarted' = ipScrollingStarted ]_vars

\* C1, its case: the Up+Down gesture has just been accepted in a visit to
\* STATE_WIFI_LOST that began in an earlier iteration
C1_Witness ==
  /\ pc = "switch"
  /\ Called("ForceReconnect")
  /\ currentState = STATE_WIFI_LOST
  /\ previousState = STATE_RUNNING
  /\ stateEnteredAt < now
  /\ reconnectAttempts = 0
  /\ lastButtonPress > stateEnteredAt

\* C2: in STATE_WIFI_LOST each automatic attempt replaces the interval by
\* min(2 * interval, 300000), from 5000 on entry: after n attempts the
\* interval is min(5000 * 2^n, 300000).
C2_BackoffInterval ==
  /\ reconnectInterval = claimedInterval(reconnectAttempts)
  /\ (Called("startWifiReconnect") /\ pc = "loop" /\ reconnectAttempts > 0)
       => reconnectInterval =
            Min(2 * claimedInterval(reconnectAttempts - 1), 300000)

\* C2, its case: the seventh attempt of one visit, the interval at its cap
C2_Witness ==
  /\ currentState = STATE_WIFI_LOST
  /\ pc = "loop"
  /\ Called("startWifiReconnect")
  /\ reconnectAttempts = 7
  /\ reconnectInterval = 300000

\* C3: STATE_WIFI_LOST is left for STATE_AP_MODE exactly when the attempt
\* counter reaches 36: never with fewer attempts, and in the very iteration
\* in which the counter becomes 36, so that no iteration ends in
\* STATE_WIFI_LOST with 36 attempts.
C3_PortalAtThirtySix ==
  /\ currentState = STATE_WIFI_LOST => reconnectAttempts < 36
  /\ (currentState = STATE_AP_MODE /\ lastFrom = STATE_WIFI_LOST)
       => reconnectAttempts = 36

\* C3, its case: the portal entered from STATE_WIFI_LOST in the iteration of
\* the 36th attempt
C3_Witness ==
  /\ currentState = STATE_AP_MODE
  /\ lastFrom = STATE_WIFI_LOST
  /\ Called("startWifiReconnect")
  /\ reconnectAttempts = 36
  /\ stateEnteredAt = Add32(now, 100)

\* C4: every transition STATE_RUNNING -> STATE_WIFI_LOST, by the loss of the
\* link or by the Up+Down gesture, leaves reconnectAttempts = 0 and
\* reconnectInterval = 5000 right after the transition.
C4_ResetOnLoss ==
  [][ (currentState = STATE_RUNNING /\ currentState' = STATE_WIFI_LOST)
      => /\ reconnectAttempts' = 0
         /\ reconnectInterval' = 5000 ]_vars

\* C4, its case: the link lost for the second time in a run, the buttons
\* untouched
C4_Witness ==
  /\ currentState = STATE_WIFI_LOST
  /\ pinChanges = 0
  /\ lastFrom = STATE_RUNNING
  /\ pc = "loop"
  /\ ~Called("startWifiReconnect")
  /\ linkChanges = 4
  /\ reconnectAttempts = 0
  /\ reconnectInterval = 5000

\* C5 as amended: entering STATE_RUNNING from STATE_WIFI_LOST leaves the
\* attempt counter and the interval as the visit to STATE_WIFI_LOST left
\* them; they are reset at the next entry to STATE_WIFI_LOST.
C5_CounterKept ==
  [][ (currentState = STATE_WIFI_LOST /\ currentState' = STATE_RUNNING)
      => /\ reconnectAttempts' = reconnectAttempts
         /\ reconnectInterval' = reconnectInterval ]_vars

\* C5, its case: the link lost, one attempt of the backoff, the link back:
\* STATE_RUNNING entered from STATE_WIFI_LOST, the buttons untouched
C5_Witness ==
  /\ currentState = STATE_RUNNING
  /\ pinChanges = 0
  /\ lastFrom = STATE_WIFI_LOST
  /\ Called("attemptNtpSync")
  /\ reconnectAttempts = 1
  /\ reconnectInterval = 10000

\* C5 as stated: whenever STATE_RUNNING is entered from STATE_WIFI_LOST the
\* attempt counter is 0 on entry.
C5_AsStated ==
  (currentState = STATE_RUNNING /\ lastFrom = STATE_WIFI_LOST)
    => reconnectAttempts = 0

\* C6 as stated: in STATE_WIFI_LOST, once a reconnect attempt of the backoff
\* has been made, a step that finds the link up with no provisioning request
\* pending leaves for STATE_RUNNING and nowhere else, and runs the time sync
\* on that transition.
C6_AsStated ==
  [][ (currentState = STATE_WIFI_LOST /\ wifiStatus
       /\ improvPending = "none" /\ reconnectAttempts > 0
       /\ currentState' # STATE_WIFI_LOST)
      => /\ currentState' = STATE_RUNNING
         /\ Called("attemptNtpSync")' ]_vars

\* C7: for an address of length L, 1 <= L <= 15, the scroll duration is
\* max(1, L - 3) * 350 * 2 ms, in STATE_SHOWING_IP and in the address display
\* of the long press; 5600 ms for L = 11.
C7_ScrollDuration ==
  /\ \A L \in 1..15 : scrollDurationFor(L) = claimedScroll(L)
  /\ scrollDurationFor(11) = 5600
  /\ (currentState = STATE_SHOWING_IP /\ ipScrollingStarted)
       => ipScrollDuration = claimedScroll(ipLen)
  /\ (pc = "switch" /\ Called("startScrolling")
      /\ currentState = STATE_RUNNING)
       => /\ btnScrollDuration = claimedScroll(ipLen)
          /\ clock = Add32(lastButtonPress, claimedScroll(ipLen))

\* C7, its case: the long press has shown an address of 11 characters that
\* STATE_SHOWING_IP had shown before
C7_Witness ==
  /\ pc = "switch"
  /\ Called("ShowAddressRequest")
  /\ Called("startScrolling")
  /\ currentState = STATE_RUNNING
  /\ ipLen = 11
  /\ ipScrollDuration = 5600
  /\ btnScrollDuration = 5600

\* C8 as stated: in a continuous hold of Mode the long press fires at most
\* once, and it fires only in a hold that has lasted 2000 ms, whatever Up and
\* Down do meanwhile.
C8_AsStated ==
  /\ holdFires <= 1
  /\ (pc = "switch" /\ Called("ShowAddressRequest"))
       => /\ holdSince # -1
          /\ Sub32(lastButtonPress, holdSince) >= 2000

\* C9: power-on without saved credentials, provisioning or link:
\* STATE_BOOT is left for STATE_IMPROV_WAIT, the display cleared, in the first
\* iteration with 3000 ms elapsed; STATE_AP_MODE is entered 10000 ms later,
\* 13000 ms after boot; STATE_WIFI_CONNECTING is never visited.
C9_BootToPortal ==
  ~savedSSID =>
    /\ currentState \in {STATE_BOOT, STATE_IMPROV_WAIT, STATE_AP_MODE}
    /\ STATE_WIFI_CONNECTING \notin visited
    /\ currentState = STATE_BOOT => Sub32(clock, bootAt) <= 3000
    /\ currentState = STATE_IMPROV_WAIT
         => /\ lastFrom = STATE_BOOT
            /\ stateEnteredAt = bootAt + 3000
            /\ (now = stateEnteredAt
                  => display = "" /\ Called("display.clear"))
            /\ Sub32(clock, stateEnteredAt) <= 10000
    /\ currentState = STATE_AP_MODE
         => /\ lastFrom = STATE_IMPROV_WAIT
            /\ stateEnteredAt = bootAt + 13000

\* C9, its case: the portal up, entered 13000 ms after boot
C9_Witness ==
  /\ ~savedSSID
  /\ currentState = STATE_AP_MODE
  /\ apActive
  /\ visited = {STATE_BOOT, STATE_IMPROV_WAIT, STATE_AP_MODE}
  /\ stateEnteredAt = bootAt + 13000

\* C10: power-on with saved credentials, the station never associating:
\* STATE_WIFI_CONNECTING is entered 13000 ms after boot and WiFi.begin is
\* called for the saved credentials; STATE_AP_MODE is entered 20000 ms after
\* that, 33000 ms after boot; STATE_WIFI_LOST is not visited.
C10_ConnectTimeout ==
  savedSSID =>
    /\ currentState \in {STATE_BOOT, STATE_IMPROV_WAIT,
                         STATE_WIFI_CONNECTING, STATE_AP_MODE}
    /\ STATE_WIFI_LOST \notin visited
    /\ currentState = STATE_WIFI_CONNECTING
         => /\ lastFrom = STATE_IMPROV_WAIT
            /\ stateEnteredAt = bootAt + 13000
            /\ staBegun
            /\ (now = stateEnteredAt => Called("WiFi.begin"))
            /\ Sub32(clock, stateEnteredAt) <= 20000
    /\ currentState = STATE_AP_MODE
         => /\ lastFrom = STATE_WIFI_CONNECTING
            /\ stateEnteredAt = bootAt + 33000

\* C10, its case: the portal up, entered from STATE_WIFI_CONNECTING
C10_Witness ==
  /\ savedSSID
  /\ currentState = STATE_AP_MODE
  /\ apActive
  /\ lastFrom = STATE_WIFI_CONNECTING
  /\ stateEnteredAt = bootAt + 33000

\* C11: a provisioning request that succeeds moves the machine to
\* STATE_NTP_SYNCING, entered at that moment, from STATE_BOOT,
\* STATE_IMPROV_WAIT, STATE_WIFI_CONNECTING, STATE_WIFI_LOST and STATE_AP_MODE
\* (the access point torn down first); arriving in STATE_NTP_SYNCING,
\* STATE_SHOWING_IP or STATE_RUNNING it changes neither the state nor
\* stateEnteredAt and runs no entry action.
C11_Preemption ==
  [][ (pc = "loop" /\ improvPending = "connect" /\ pc' = "buttons")
      => /\ Called("onImprovWiFiConnect")'
         /\ currentState \in {STATE_BOOT, STATE_IMPROV_WAIT,
                               STATE_WIFI_CONNECTING, STATE_WIFI_LOST,
                               STATE_AP_MODE}
              => /\ currentState' = STATE_NTP_SYNCING
                 /\ previousState' = currentState
                 /\ stateEnteredAt' = clock'
                 /\ ~apActive'
                 /\ currentState = STATE_AP_MODE => Called("softAPdisconnect")'
         /\ currentState \in {STATE_NTP_SYNCING, STATE_SHOWING_IP,
                               STATE_RUNNING}
              => /\ currentState' = currentState
                 /\ previousState' = previousState
                 /\ stateEnteredAt' = stateEnteredAt
                 /\ ipScrollingStarted' = ipScrollingStarted
                 /\ reconnectAttempts' = reconnectAttempts
                 /\ reconnectInterval' = reconnectInterval
                 /\ lastReconnectAttempt' = lastReconnectAttempt ]_vars

\* the request arrived while the link was lost, after the link had come up
\* by itself and dropped, and the machine has just left for the time sync
C11_Witness ==
  /\ pc = "buttons"
  /\ Called("onImprovWiFiConnect")
  /\ currentState = STATE_NTP_SYNCING
  /\ lastFrom = STATE_WIFI_LOST
  /\ linkChanges = 2

\* C12 as stated: with the link down throughout and no Up+Down, the time from
\* the entry to STATE_WIFI_LOST to the fallback to STATE_AP_MODE after 36
\* attempts is 1 800 000 ms to within 20 percent.
C12_AsStated ==
  (currentState = STATE_AP_MODE /\ lastFrom = STATE_WIFI_LOST /\ pinChanges = 0)
    => /\ Sub32(stateEnteredAt, lostEnteredAt) >= 1440000
       /\ Sub32(stateEnteredAt, lostEnteredAt) <= 2160000

\* the wait the claims give before the n-th attempt, min(5000 * 2^(n-1), 300000)
claimedWait(n) == claimedInterval(n - 1)

\* C13 as stated: in one visit to STATE_WIFI_LOST with the link down and no
\* Up+Down, the n-th automatic attempt is made min(5000 * 2^(n-1), 300000) ms
\* after the attempt before it, the first one 5000 ms after the state was
\* entered (a wait ends at the first iteration of loop() that finds it over).
C13_AsStated ==
  (currentState = STATE_WIFI_LOST /\ reconnectAttempts >= 1 /\ pinChanges = 0)
    => /\ lastWait >= claimedWait(reconnectAttempts)
       /\ lastWait < claimedWait(reconnectAttempts) + 2 * LOOP_DELAY_MS

\* C14: once the link is down for good, with no provisioning request and no
\* Up+Down, the machine reaches STATE_AP_MODE whatever state it was in.
C14_EventuallyPortal == linkDead ~> (currentState = STATE_AP_MODE)

\* the portal opened after the link died while the clock ran: the 36 attempts
\* of STATE_WIFI_LOST were all made
C14_Witness ==
  /\ linkDead
  /\ currentState = STATE_AP_MODE
  /\ lastFrom = STATE_WIFI_LOST
  /\ reconnectAttempts = MAX_RECONNECT_BEFORE_AP
  /\ apActive

\* the blocking beeps of the iteration
beepsOf(cs) == Cardinality({i \in DOMAIN cs : cs[i] = "beep"})

\* C15 as stated: the switch of loop() never blocks but for its beeps, each
\* under 300 ms: in STATE_NTP_SYNCING, STATE_RUNNING and STATE_WIFI_LOST the
\* time it takes, the closing delay(10) apart, is under 300 ms for each beep
\* it sounds, and nothing when it sounds none.
C15_AsStated ==
  [][ (pc = "switch" /\ pc' = "loop"
       /\ currentState \in {STATE_NTP_SYNCING, STATE_RUNNING, STATE_WIFI_LOST})
      => Sub32(clock', clock) <= LOOP_DELAY_MS + 299 * beepsOf(calls') ]_vars

\* C16 as stated: the decisions on elapsed time do not depend on the value of
\* millis(), across its overflow too. A beep that has ended has sounded for
\* its duration at least, and the first automatic attempt of a visit to
\* STATE_WIFI_LOST comes in the iteration after the one that entered the
\* state, as it does at every value of millis() from 5000 up.
C16_AsStated ==
  /\ (~beepActive /\ beepDuration > 0) => beepRan >= beepDuration
  /\ (currentState = STATE_WIFI_LOST /\ reconnectAttempts = 1)
       => lastWait = LOOP_DELAY_MS
  /\ (currentState = STATE_WIFI_LOST /\ pc = "loop" /\ reconnectAttempts = 0)
       => Sub32(clock, lostEnteredAt) <= LOOP_DELAY_MS

\* C17: the brightness, in memory and in the Preferences, is within 0..15
\* whatever the buttons and the portal do: a step of handleButtons() moves it
\* by one at most and leaves it alone when Up is pressed at 15 or Down at 0,
\* and a form posted with a brightness outside 0..15 leaves it as it was,
\* one within 0..15 sets it.
C17_BrightnessRange ==
  /\ [](/\ displayBrightness \in 0..15
        /\ prefBrightness \in {PREF_UNSET} \cup 0..15)
  /\ [][ /\ (pc = "buttons" /\ pc' = "switch")
              => /\ displayBrightness' - displayBrightness \in {-1, 0, 1}
                 /\ (pins[2] /\ displayBrightness = 15)
                      => displayBrightness' = 15
                 /\ (pins[3] /\ displayBrightness = 0)
                      => displayBrightness' = 0
         /\ Called("handleSave")'
              => IF webPending.hasBrightness /\ webPending.brightness \in 0..15
                 THEN /\ displayBrightness' = webPending.brightness
                      /\ prefBrightness' = webPending.brightness
                 ELSE /\ displayBrightness' = displayBrightness
                      /\ prefBrightness' = prefBrightness ]_vars

\* a form set the brightness to 15, the clock restarted with it, and Up was
\* then pressed and taken: the brightness is still 15
C17_Witness ==
  /\ pc = "switch"
  /\ boots = 1
  /\ displayBrightness = 15
  /\ prefBrightness = 15
  /\ pins[2] /\ lastUpState
  /\ lastButtonPress = now
  /\ ~Called("BrightnessUp")

\* the hour format as the Preferences hold it
stored24hour == IF use24Hour THEN "24" ELSE "12"

\* C18: a step of handleButtons() that changes use24Hour or displayBrightness
\* writes the new value to the Preferences in the same iteration, and the rest
\* of the iteration touches neither: at its end the stored value is the one in
\* memory.
C18_PersistedInTick ==
  [][ /\ (pc = "buttons" /\ pc' = "switch")
           => /\ displayBrightness' # displayBrightness
                   => prefBrightness' = displayBrightness'
              /\ use24Hour' # use24Hour => pref24hour' = stored24hour'
              /\ Called("ToggleHourFormat")' => use24Hour' # use24Hour
              /\ (Called("BrightnessUp")' \/ Called("BrightnessDown")')
                   => displayBrightness' # displayBrightness
      /\ (pc = "switch" /\ pc' = "loop")
           => UNCHANGED <<displayBrightness, prefBrightness, use24Hour,
                          pref24hour>> ]_vars

\* a short press of Mode has just switched the clock to the 12-hour format
C18_Witness ==
  /\ pc = "switch"
  /\ Called("ToggleHourFormat")
  /\ pinChanges = 2
  /\ ~use24Hour
  /\ pref24hour = "12"

\* C19: the saved network changes only in a step of loop() that serves a
\* provisioning request, a form of the portal or a factory reset; the entry to
\* STATE_AP_MODE, after the connection timeout or after the 36 attempts,
\* leaves it as it was, and so does a power cycle, after which the clock boots
\* with the network it had.
C19_CredentialsKept ==
  [][ /\ savedSSID' # savedSSID
           => \/ Called("onImprovWiFiConnect")'
              \/ Called("handleSave")'
              \/ Called("handleFactoryReset")'
      /\ (currentState' = STATE_AP_MODE /\ currentState # STATE_AP_MODE)
           => savedSSID' = savedSSID
      /\ (boots' = boots + 1 /\ calls' = <<"restart">>)
           => /\ savedSSID' = savedSSID
              /\ currentState' = STATE_BOOT ]_vars

\* the connection had timed out and the portal had opened; after a power
\* cycle, nothing else having happened, the clock is connecting again to the
\* saved network
C19_Witness ==
  /\ boots = 1
  /\ webRequests = 0 /\ provisions = 0
  /\ prevVisited = {STATE_BOOT, STATE_IMPROV_WAIT, STATE_WIFI_CONNECTING,
                    STATE_AP_MODE}
  /\ currentState = STATE_WIFI_CONNECTING
  /\ savedSSID /\ staBegun

\* C20: a factory reset leaves no saved network and no stored brightness or
\* hour format, and restarts the clock on the defaults; from then on, until a
\* provisioning request or a form of the portal, the clock has no network
\* to join: it stays in STATE_BOOT for 3 s and in STATE_IMPROV_WAIT for 10 s at
\* most and visits no state but these two and STATE_AP_MODE.
C20_FactoryReset ==
  /\ [][ Called("handleFactoryReset")'
         => /\ ~savedSSID'
            /\ prefBrightness' = PREF_UNSET
            /\ pref24hour' = "unset"
            /\ displayBrightness' = DEFAULT_BRIGHTNESS
            /\ use24Hour'
            /\ currentState' = STATE_BOOT
            /\ resetSince' ]_vars
  /\ [](resetSince
         => /\ ~savedSSID
            /\ visited \subseteq {STATE_BOOT, STATE_IMPROV_WAIT, STATE_AP_MODE}
            /\ currentState = STATE_BOOT
                 => Sub32(clock, stateEnteredAt) <= BOOT_MS
            /\ currentState = STATE_IMPROV_WAIT
                 => Sub32(clock, stateEnteredAt) <= IMPROV_WAIT_MS)

\* the portal is open again after a factory reset made from the portal of a
\* clock that had a saved network
C20_Witness ==
  /\ resetSince
  /\ boots = 1
  /\ STATE_WIFI_CONNECTING \in prevVisited
  /\ currentState = STATE_AP_MODE
  /\ lastFrom = STATE_IMPROV_WAIT
  /\ apActive
  /\ displayBrightness = DEFAULT_BRIGHTNESS

\* C21: the access point of the portal runs only while the state is
\* STATE_AP_MODE.  In every reachable state other than STATE_AP_MODE the access
\* point is stopped, and every step that leaves STATE_AP_MODE without a
\* restart, by the link seen up in the switch or by the preemption check,
\* calls softAPdisconnect and ends with the access point stopped.
C21_PortalOnlyInApMode ==
  /\ [](currentState # STATE_AP_MODE => ~apActive)
  /\ [][ (currentState = STATE_AP_MODE /\ currentState' # STATE_AP_MODE
          /\ boots' = boots)
         => /\ Called("softAPdisconnect")'
            /\ ~apActive'
            /\ currentState' = STATE_NTP_SYNCING ]_vars

\* C21, its case: the portal had been opened and was scrolling its address,
\* a provisioning request failed, the station associated later, and the
\* switch has left STATE_AP_MODE for STATE_NTP_SYNCING
C21_Witness ==
  /\ pc = "loop"
  /\ currentState = STATE_NTP_SYNCING
  /\ lastFrom = STATE_AP_MODE
  /\ ipScrollingStarted
  /\ ~improvConnected
  /\ Called("softAPdisconnect")
  /\ ~apActive

\* C22: any two consecutive accepted button actions (ForceReconnect,
\* ShowAddressRequest, ToggleHourFormat, BrightnessUp, BrightnessDown) are at
\* least 200 ms apart.  actionGap is the time between the last two accepted
\* actions, counted up to 200 ms.
C22_AsStated == actionGap >= BUTTON_SPACING_MS

\* C23: previousState and stateEnteredAt are written by changeState alone: in
\* every reachable state previousState is the state that was current just
\* before the most recent state change (lastFrom, recorded by changeState).
C23_AsStated == previousState = lastFrom

\* C24: STATE_NTP_SYNCING is left for STATE_SHOWING_IP without a successful
\* time sync only 10000 ms or more after it was entered.  A successful sync
\* is followed by the two confirmation beeps; the exit by timeout plays none.
C24_AsStated ==
  [][ (currentState = STATE_NTP_SYNCING /\ currentState' = STATE_SHOWING_IP
       /\ ~Called("beep")')
      => Sub32(stateEnteredAt', stateEnteredAt) >= NTP_TIMEOUT_MS ]_vars

\* C25: a connect attempt is given the interval that follows it before it is
\* superseded.  In STATE_WIFI_LOST the switch does not call
\* startWifiReconnect in the iteration in which handleButtons has issued the
\* attempt of ForceReconnect; an automatic attempt comes one interval or more
\* after the automatic attempt before it; and the fallback to STATE_AP_MODE
\* is not taken in the iteration that has issued an attempt.
C25_AsStated ==
  [][ /\ (pc = "switch" /\ currentState = STATE_WIFI_LOST
          /\ Called("ForceReconnect") /\ Called("WiFi.begin"))
         => ~Called("startWifiReconnect")'
      /\ (pc = "switch" /\ currentState = STATE_WIFI_LOST
          /\ reconnectAttempts >= 1 /\ Called("startWifiReconnect")')
         => Sub32(now, lastReconnectAttempt) >= reconnectInterval
      /\ (currentState = STATE_WIFI_LOST /\ currentState' = STATE_AP_MODE)
         => ~Called("WiFi.begin")' ]_vars

\* C26: when the Up+Down gesture is accepted in STATE_RUNNING, at the end of
\* handleButtons() the state is STATE_WIFI_LOST, reconnectAttempts is 0,
\* reconnectInterval is 5000 and startWifiReconnect() has begun a connection
\* with the saved credentials, the link having been up or not.
C26_ForceReconnect ==
  [][ (pc = "buttons" /\ currentState = STATE_RUNNING
       /\ Called("ForceReconnect")')
      => /\ pc' = "switch"
         /\ currentState' = STATE_WIFI_LOST
         /\ reconnectAttempts' = 0
         /\ reconnectInterval' = INITIAL_RECONNECT_INTERVAL
         /\ Called("startWifiReconnect")'
         /\ Called("WiFi.begin")'
         /\ savedSSID' /\ staBegun' /\ ~wifiStatus' ]_vars

\* C26, its case: the gesture has just been accepted in STATE_RUNNING while
\* the link, up since the clock connected, had never dropped
C26_Witness ==
  /\ pc = "switch"
  /\ Called("ForceReconnect")
  /\ currentState = STATE_WIFI_LOST
  /\ lastFrom = STATE_RUNNING
  /\ stateEnteredAt > now
  /\ linkChanges = 1
  /\ everConnected
  /\ ~wifiStatus /\ staBegun
  /\ reconnectAttempts = 0

\* C27 as stated: the firmware version stays on the display for the full
\* 3000 ms of STATE_BOOT: an iteration that starts earlier than 3000 ms after
\* STATE_BOOT was entered ends in STATE_BOOT with the version on the display.
C27_AsStated ==
  (pc = "loop" /\ now >= bootAt /\ Sub32(now, bootAt) < BOOT_MS)
    => (currentState = STATE_BOOT /\ display = "3.01")

\* C27, amended: while the state is STATE_BOOT the display shows the firmware
\* version, and STATE_BOOT is left either by the switch, for
\* STATE_IMPROV_WAIT with the display cleared, 3000 ms or more after it was
\* entered, or by the preemption check, for STATE_NTP_SYNCING, in the
\* iteration in which a provisioning request has connected the clock.
C27_BootUnlessProvisioned ==
  /\ [](currentState = STATE_BOOT => display = "3.01")
  /\ [][ (currentState = STATE_BOOT /\ currentState' # STATE_BOOT)
         => \/ /\ pc = "switch"
               /\ currentState' = STATE_IMPROV_WAIT
               /\ stateElapsed >= BOOT_MS
               /\ Sub32(stateEnteredAt', stateEnteredAt) >= BOOT_MS
               /\ display' = ""
            \/ /\ pc = "loop"
               /\ currentState' = STATE_NTP_SYNCING
               /\ Called("onImprovWiFiConnect")'
               /\ improvConnected' /\ wifiStatus'
               /\ display' = display ]_vars

\* C27, its case: a provisioning request has connected the clock less than
\* 3000 ms after power-on and the preemption check has left STATE_BOOT, the
\* version still on the display
C27_Witness ==
  /\ pc = "buttons"
  /\ currentState = STATE_NTP_SYNCING
  /\ lastFrom = STATE_BOOT
  /\ Sub32(stateEnteredAt, bootAt) < BOOT_MS
  /\ display = "3.01"

\* C28 as stated: in STATE_IMPROV_WAIT, between two iterations, the display
\* shows "----" during the first 500 ms after entry and is blank from 500 ms
\* after entry on.
C28_AsStated ==
  (currentState = STATE_IMPROV_WAIT /\ pc = "loop" /\ now > stateEnteredAt)
    => display = (IF Sub32(clock, stateEnteredAt) < 500 THEN "----" ELSE "")

\* C28, amended: in STATE_IMPROV_WAIT the display is blank until the switch
\* has run once in the state and shows "----" from then on until the state is
\* left; the switch writes it in the iterations that start less than 500 ms
\* after entry and leaves the display alone afterwards.
C28_PlaceholderKept ==
  /\ []( currentState = STATE_IMPROV_WAIT
         => /\ display \in {"", "----"}
            /\ (pc = "loop" /\ now > stateEnteredAt) => display = "----"
            /\ display = "" => (now <= stateEnteredAt \/ pc # "loop") )
  /\ [][ (pc = "switch" /\ currentState = STATE_IMPROV_WAIT
          /\ stateElapsed >= 500 /\ currentState' = STATE_IMPROV_WAIT)
         => (display = "----" /\ display' = "----") ]_vars

\* C28, its case: five seconds into STATE_IMPROV_WAIT the display still shows
\* the placeholder
C28_Witness ==
  /\ currentState = STATE_IMPROV_WAIT
  /\ pc = "loop"
  /\ Sub32(clock, stateEnteredAt) >= 5000
  /\ display = "----"

\* C29: on each visit to STATE_SHOWING_IP the scroll is started once, by the
\* first iteration in the state; ipScrollDuration is computed then, for the
\* address of that moment, and does not change while the state lasts; the
\* state is left, restarts aside, only by the switch, for STATE_RUNNING with
\* the display cleared, in the first iteration whose stateElapsed is at least
\* that duration and in no earlier one, whatever ipScrollingStarted and
\* ipScrollDuration held when the state was entered.
C29_ScrollOncePerVisit ==
  /\ []( (currentState = STATE_SHOWING_IP /\ pc = "loop" /\ now > stateEnteredAt)
         => /\ ipScrollingStarted
            /\ display = "scroll"
            /\ ipScrollDuration = scrollDurationFor(ipLen) )
  /\ []( (currentState = STATE_SHOWING_IP /\ now <= stateEnteredAt)
         => ~ipScrollingStarted )
  /\ [][ (currentState = STATE_SHOWING_IP /\ ipScrollingStarted
          /\ currentState' = STATE_SHOWING_IP)
         => /\ ipScrollDuration' = ipScrollDuration
            /\ ipScrollingStarted'
            /\ ipLen' = ipLen
            /\ pc' # pc => ~Called("startScrolling")' ]_vars
  /\ [][ (currentState = STATE_SHOWING_IP /\ currentState' # STATE_SHOWING_IP
          /\ boots' = boots)
         => /\ pc = "switch"
            /\ currentState' = STATE_RUNNING
            /\ display' = ""
            /\ stateElapsed = Sub32(now, stateEnteredAt)
            /\ stateElapsed >= scrollDurationFor(ipLen)
            /\ ipScrollDuration' = scrollDurationFor(ipLen) ]_vars
  /\ [][ (currentState = STATE_SHOWING_IP /\ pc = "switch")
         => (currentState' = STATE_SHOWING_IP
             <=> stateElapsed < scrollDurationFor(ipLen)) ]_vars

\* C29, its case: the second visit to STATE_SHOWING_IP, for an address of 15
\* characters after one of fewer, has ended after its own 8400 ms
C29_Witness ==
  /\ currentState = STATE_RUNNING
  /\ lastFrom = STATE_SHOWING_IP
  /\ provisions = MaxScrollProvisions
  /\ STATE_WIFI_LOST \in visited
  /\ ipLen = 15
  /\ ipScrollDuration = 8400

\* C30 as stated: a step from STATE_WIFI_CONNECTING to STATE_NTP_SYNCING made
\* while Preferences hold a "timezone", whatever its value, does not call
\* detectTimezoneFromIP().
C30_AsStated ==
  [][ (currentState = STATE_WIFI_CONNECTING
       /\ currentState' = STATE_NTP_SYNCING
       /\ prefTimezone # PREF_UNSET)
      => ~Called("detectTimezoneFromIP")' ]_vars

\* C31: every step that leaves STATE_AP_MODE without a restart has seen the
\* link up and enters STATE_NTP_SYNCING, and STATE_RUNNING is never held while no call of
\* attemptNtpSync() has been made since STATE_AP_MODE was last left
\* (sinceExit = "left").
C31_SyncAfterPortal ==
  /\ [](currentState = STATE_RUNNING => sinceExit # "left")
  /\ [][ (currentState = STATE_AP_MODE /\ currentState' # STATE_AP_MODE
          /\ boots' = boots)
         => (wifiStatus' /\ currentState' = STATE_NTP_SYNCING
             /\ sinceExit' \in {"left", "synced"}) ]_vars

\* C31, its case: the clock runs after the portal was left on a connection
\* and a time sync was attempted
C31_Witness ==
  /\ currentState = STATE_RUNNING
  /\ STATE_AP_MODE \in visited
  /\ sinceExit = "synced"

\* C32 as stated: when handleButtons() samples Mode released after a hold
\* (holdSince # -1) in which the long press did not fire, 200 ms or more after
\* the last accepted action, it toggles use24Hour; when the long press fired
\* in the hold, it leaves use24Hour alone.
C32_AsStated ==
  [][ (pc = "buttons" /\ ~pins[1] /\ holdSince # -1)
      => /\ (holdFires = 0
             /\ (lastActionAt = -1
                 \/ Sub32(clock, lastActionAt) >= BUTTON_SPACING_MS))
            => (use24Hour' = ~use24Hour /\ Called("ToggleHourFormat")')
         /\ holdFires > 0 => use24Hour' = use24Hour ]_vars

\* C33: in every reachable state 0 <= reconnectAttempts <= 36 and
\* reconnectInterval = min(5000 * 2^reconnectAttempts, 300000), one of 5000,
\* 10000, 20000, 40000, 80000, 160000, 300000; twice the interval, the value
\* the code computes before min(), is below 2^30 (the width of the counters
\* of the model) and so fits 32 bits.
C33_ReconnectFields ==
  /\ reconnectAttempts \in 0..MAX_RECONNECT_BEFORE_AP
  /\ reconnectInterval =
       (IF reconnectAttempts >= 6 THEN MAX_RECONNECT_INTERVAL
        ELSE INITIAL_RECONNECT_INTERVAL * 2^reconnectAttempts)
  /\ reconnectInterval \in {5000, 10000, 20000, 40000, 80000, 160000, 300000}
  /\ 2 * reconnectInterval < Word32
  /\ (2 * reconnectInterval) % Word32 = 2 * reconnectInterval

\* C33, its case: a visit to STATE_WIFI_LOST in which the interval has been
\* at its cap for more than one attempt
C33_Witness ==
  /\ currentState = STATE_WIFI_LOST
  /\ reconnectAttempts = 8
  /\ reconnectInterval = MAX_RECONNECT_INTERVAL

\* C34 as stated: the preemption check makes at most one transition for each
\* provisioning request that has connected: preemptions, the number of its
\* transitions since the last such request, never exceeds 1.
C34_AsStated == preemptions <= 1

\* C35: a step taken in STATE_AP_MODE, restarts aside, leaves the state only
\* with the link seen up, and unless it serves a provisioning request it
\* calls neither startWifiReconnect() nor WiFi.begin(): not by the passage of
\* time, not for Up+Down or the long press of Mode, not for saved credentials.
C35_PortalHeld ==
  [][ (currentState = STATE_AP_MODE /\ boots' = boots /\ pc' # pc)
      => /\ currentState' # STATE_AP_MODE => wifiStatus'
         /\ ~Called("onImprovWiFiConnect")'
            => (~Called("WiFi.begin")' /\ ~Called("startWifiReconnect")'
                /\ (staBegun' => staBegun)) ]_vars

\* C35, its case: Up+Down has just been accepted while the portal of a clock
\* with saved credentials has been open for three seconds
C35_Witness ==
  /\ currentState = STATE_AP_MODE
  /\ pc = "switch"
  /\ Called("ForceReconnect")
  /\ apActive /\ savedSSID
  /\ Sub32(now, stateEnteredAt) >= 3000

\* C36 as stated: the access point is started exactly once in every visit to
\* STATE_AP_MODE: every pass of the switch in the state ends with one start
\* made since entry, and the state is left, restarts aside, with one start
\* made.
C36_AsStated ==
  [][ /\ (pc = "switch" /\ currentState = STATE_AP_MODE) => portalStarts' = 1
      /\ (currentState = STATE_AP_MODE /\ currentState' # STATE_AP_MODE
          /\ boots' = boots) => portalStarts' = 1 ]_vars

\* C36, amended: every pass of the switch in STATE_AP_MODE ends with exactly
\* one start of the access point made since entry, so the first pass makes it
\* and no later pass repeats it; the state is left with no start made only by
\* the preemption check, in the first iteration after entry, before the
\* switch has run in the state.
C36_StartOncePerVisit ==
  [][ /\ (pc = "switch" /\ currentState = STATE_AP_MODE) => portalStarts' = 1
      /\ (pc' # pc /\ currentState = STATE_AP_MODE /\ pc # "switch")
         => ~Called("softAP")'
      /\ (currentState = STATE_AP_MODE /\ currentState' # STATE_AP_MODE
          /\ boots' = boots)
         => \/ portalStarts' = 1
            \/ /\ portalStarts' = 0
               /\ pc = "loop" /\ improvConnected' /\ wifiStatus'
               /\ currentState' = STATE_NTP_SYNCING
               /\ now <= stateEnteredAt ]_vars

\* C36, its case: the second visit to the portal, entered from
\* STATE_WIFI_LOST after the first was left, has made its one start
C36_Witness ==
  /\ currentState = STATE_AP_MODE
  /\ lastFrom = STATE_WIFI_LOST
  /\ sinceExit = "synced"
  /\ pc = "loop"
  /\ portalStarts = 1
  /\ apActive

\* the gesture of Up and Down: provisioning at power-on, then Up and Down
\* pressed and released one at a time or together while the clock runs or
\* reconnects, at any multiple of SpacingQuantum ms
StepGesture ==
  IF currentState \in {STATE_RUNNING, STATE_WIFI_LOST} THEN SpacingQuantum
  ELSE Quantum
NextGesture ==
  \/ LoopBegin(clock < MaxTimeGesture)
  \/ HandleButtons
  \/ StateMachine
  \/ Idle(StepGesture, clock < MaxTimeGesture)
  \/ Provision(currentState = STATE_BOOT, ConnectOnly, MaxProvisions)
  \/ PinsChange(/\ clock < MaxTimeGesture
                /\ currentState \in {STATE_RUNNING, STATE_WIFI_LOST},
                UpDown, MaxGesturePins)

SpecGesture == Init /\ [][NextGesture]_vars

\* C37: in a gesture of Up and Down in which ForceReconnect was accepted, no
\* BrightnessUp and no BrightnessDown was applied between the first sample
\* that read one of the two pressed and the sample that reads both released
C37_AsStated ==
  gesture = "combo" => gestureActs = 0

\* ---- BufferedHWCDC: the ring buffer of the serial workaround ----
\* The memory accesses of feedByte() and read() are taken one at a time: head,
\* tail and count are volatile, so each statement loads its operand into a
\* register (reg) and stores the result in a later step.  `at` is the position
\* of the call, `unread` the bytes accepted and not yet returned (history).

\* the bytes Serial.read() hands to feedByte
Bytes == {73, 255}

\* feedByte() without the test of count < sizeof(buffer)
feedByteStepOverwrite(m, who) ==
  LET c == m[who]
  IN CASE c.at = 1 -> [m EXCEPT ![who].at = 2,
                                !.unread = Append(m.unread, c.byte)]
       [] c.at = 2 -> [m EXCEPT ![who].reg = m.tail, ![who].at = 3]
       [] c.at = 3 -> [m EXCEPT !.buffer[c.reg] = c.byte, ![who].at = 4]
       [] c.at = 4 -> [m EXCEPT ![who].reg = m.tail, ![who].at = 5]
       [] c.at = 5 -> [m EXCEPT !.tail = (c.reg + 1) % BufferSize,
                                ![who].at = 6]
       [] c.at = 6 -> [m EXCEPT ![who].reg = m.count, ![who].at = 7]
       [] c.at = 7 -> [m EXCEPT !.count = (c.reg + 1) % Word16,
                                ![who] = NoCall]

\* void feedByte(uint8_t byte), one memory access at a time
feedByteStep(m, who) ==
  LET c == m[who]
  IN CASE c.at = 1 -> IF m.count < BufferSize
                      THEN [m EXCEPT ![who].at = 2,
                                     !.unread = Append(m.unread, c.byte)]
                      ELSE [m EXCEPT ![who] = NoCall]
       [] c.at = 2 -> [m EXCEPT ![who].reg = m.tail, ![who].at = 3]
       [] c.at = 3 -> [m EXCEPT !.buffer[c.reg] = c.byte, ![who].at = 4]
       [] c.at = 4 -> [m EXCEPT ![who].reg = m.tail, ![who].at = 5]
       [] c.at = 5 -> [m EXCEPT !.tail = (c.reg + 1) % BufferSize,
                                ![who].at = 6]
       [] c.at = 6 -> [m EXCEPT ![who].reg = m.count, ![who].at = 7]
       [] c.at = 7 -> [m EXCEPT !.count = (c.reg + 1) % Word16,
                                ![who] = NoCall]

\* int read(), one memory access at a time
readStep(m, who) ==
  LET c == m[who]
  IN CASE c.at = 1 -> IF m.count = 0
                      THEN [m EXCEPT !.lastRead = -1, ![who] = NoCall]
                      ELSE [m EXCEPT ![who].at = 2]
       [] c.at = 2 -> [m EXCEPT ![who].reg = m.head, ![who].at = 3]
       [] c.at = 3 -> [m EXCEPT ![who].byte = m.buffer[c.reg], ![who].at = 4]
       [] c.at = 4 -> [m EXCEPT ![who].reg = m.head, ![who].at = 5]
       [] c.at = 5 -> [m EXCEPT !.head = (c.reg + 1) % BufferSize,
                                ![who].at = 6]
       [] c.at = 6 -> [m EXCEPT ![who].reg = m.count, ![who].at = 7]
       [] c.at = 7 -> [m EXCEPT !.count = (c.reg - 1 + Word16) % Word16,
                                !.lastRead = c.byte,
                                !.unread = IF m.unread = << >> THEN << >>
                                           ELSE Tail(m.unread),
                                ![who] = NoCall]

\* a thread of control enters feedByte or read: loopCall is loop(), which
\* feeds in its serial poll and reads in improvSerial.handleSerial();
\* eventCall is hwcdcEventCallback, which feeds.  `alone` keeps the calls one
\* at a time
CallBegin(who, op, alone, budget) ==
  /\ pc = "loop" /\ ringOps < budget
  /\ M[who] = NoCall
  /\ alone => (loopCall = NoCall /\ eventCall = NoCall)
  /\ \E b \in IF op = "read" THEN {0} ELSE Bytes :
       Commit([M EXCEPT ![who] = [op |-> op, at |-> 1, byte |-> b, reg |-> 0],
                        !.ringOps = ringOps + 1])
  /\ pc' = pc

\* the next memory access of the call a thread of control is in
CallStep(who) ==
  /\ pc = "loop"
  /\ M[who] # NoCall
  /\ Commit(IF M[who].op = "feedByte" THEN feedByteStep(M, who)
            ELSE readStep(M, who))
  /\ pc' = pc

\* feedByte and read called one at a time
NextRing ==
  \/ CallBegin("loopCall", "feedByte", TRUE, MaxRingOps)
  \/ CallBegin("loopCall", "read", TRUE, MaxRingOps)
  \/ CallBegin("eventCall", "feedByte", TRUE, MaxRingOps)
  \/ CallStep("loopCall")
  \/ CallStep("eventCall")

SpecRing == Init /\ [][NextRing]_vars

\* hwcdcEventCallback runs while loop() is inside feedByte or read
NextRace ==
  \/ CallBegin("loopCall", "feedByte", FALSE, MaxRaceOps)
  \/ CallBegin("loopCall", "read", FALSE, MaxRaceOps)
  \/ CallBegin("eventCall", "feedByte", FALSE, MaxRaceOps)
  \/ CallStep("loopCall")
  \/ CallStep("eventCall")

SpecRace == Init /\ [][NextRace]_vars

\* no call of feedByte or read is under way
Quiet == loopCall = NoCall /\ eventCall = NoCall
\* the count bytes from head on, in the order read() returns them
Window == [i \in 1 .. count |-> buffer[(head + i - 1) % BufferSize]]

\* C38: with feedByte and read run one at a time the buffer is a bounded
\* FIFO: count stays within 0 .. sizeof(buffer) and equals (tail - head) mod
\* sizeof(buffer) unless the buffer is full, the bytes from head on are the
\* bytes fed and not yet read, in order; read returns the oldest of them, or
\* -1 and no change when there is none; feedByte on a full buffer changes
\* nothing
C38_BoundedFifo ==
  /\ [](/\ count \in 0 .. BufferSize
        /\ Quiet =>
             /\ head \in 0 .. BufferSize - 1
             /\ tail \in 0 .. BufferSize - 1
             /\ count < BufferSize
                  => count = (tail - head + BufferSize) % BufferSize
             /\ count = BufferSize => tail = head
             /\ Window = unread)
  /\ [][ /\ (loopCall.op = "read" /\ loopCall' = NoCall)
            => IF unread = << >>
               THEN /\ lastRead' = -1
                    /\ UNCHANGED <<buffer, head, tail, count, unread>>
               ELSE /\ lastRead' = Head(unread)
                    /\ unread' = Tail(unread)
         /\ \A who \in {"loopCall", "eventCall"} :
              (M[who].op = "feedByte" /\ M[who].at = 1
               /\ Len(unread) = BufferSize /\ M'[who] # M[who])
              => /\ M'[who] = NoCall
                 /\ UNCHANGED <<buffer, head, tail, count, unread>> ]_vars

\* C38, its case: a byte has been read and the buffer filled again, the last
\* byte stored in the slot the first read freed; a byte fed then was dropped
C38_Witness ==
  /\ Quiet
  /\ count = BufferSize
  /\ head = 1 /\ tail = 1
  /\ lastRead \in Bytes
  /\ ringOps = BufferSize + 3

\* C39: with hwcdcEventCallback feeding while loop() feeds or reads, once no
\* call is under way count is the number of bytes accepted and not yet
\* returned, and the count bytes from head on are those bytes
C39_AsStated ==
  Quiet =>
    /\ count = Len(unread)
    /\ \A b \in Bytes :
         Cardinality({i \in 1 .. count : Window[i] = b})
           = Cardinality({i \in DOMAIN unread : unread[i] = b})

====
